---- MODULE Spec2Model ----
(***************************************************************************)
(* State-and-retrieval substrate of the interactive-fiction engine:        *)
(* the JSON delta engine (fast-json-patch compare / applyPatch as the      *)
(* sources call them), WorldState, StoryTree and GameEngine.               *)
(*                                                                         *)
(* JSON values are tagged records [t, v]:                                  *)
(*   "s" string, "n" number, "p" JSON-pointer string (kept as its list of  *)
(*   path components), "z" null, "d" a JavaScript Date object,             *)
(*   "o" object (ORDERED list of [k, v] entries, insertion order as in     *)
(*   JavaScript), "a" array.  "throw" stands for a thrown exception.       *)
(***************************************************************************)
EXTENDS Integers, Sequences, FiniteSets, TLC

VARIABLES
    wsDoc,      \* WorldState: the live document {state, plots}
    wsInit,     \* the document the WorldState was constructed with
    wsLog,      \* the DeltaPairs returned by the mutations so far, in order
    wsEnd,      \* the live document when the mutations ended
    wsReplay,   \* a fresh WorldState(wsInit) that replays the apply lists
    wsPhase,    \* "mutate", "revert", "reverted", "revertFailed", "replay", "replayed",
                \* "replayFailed"
    wsIdx,      \* next delta of wsLog to revert or replay
    wsPlotCtr,  \* number of plot ids handed out (crypto.randomUUID)
    wsLast      \* the last mutation: [op, arg, before]

wsVars == <<wsDoc, wsInit, wsLog, wsEnd, wsReplay, wsPhase, wsIdx, wsPlotCtr, wsLast>>

VARIABLES
    treeDoc,     \* StoryTree: {nodes (Map in insertion order), rootNodeId}
    treePhase,   \* "idle", "deleted" (deleteBranch just returned), "reverted"
    treeBefore,  \* the tree before the last deleteBranch
    treeResult,  \* what the last deleteBranch returned: [id, deletedNodes, delta]
    treeDeleted, \* whether deleteBranch has been called so far
    treeOps,     \* number of addNode / deleteBranch calls so far
    treeLast     \* the last call on the tree: its arguments, the tree before it
                 \* and the delta pair it returned (Null for null)

treeVars == <<treeDoc, treePhase, treeBefore, treeResult, treeDeleted, treeOps, treeLast>>

VARIABLES
    engine,       \* the GameEngine object (its fields, and those of the WorldState,
                  \* StoryTree and MemoryBank it owns)
    turns,        \* the async calls in flight (newSession, act, continue, retry,
                  \* edit), each suspended at an await
    engLast,      \* the last call made or ended: [at, op, outcome, before, inFlight, changed, arg]
    engNodeWS,    \* for every node id, the world state when the node was added
    engBase,      \* [observable, depth, mode]: the observable state and undo depth
                  \* before the first action, and whether only undos followed the actions
    engOps,       \* number of engine calls made so far
    engToolCalls, \* number of director tool calls made so far
    engCaller     \* "sequential": a call is made only when no call is in flight;
                  \* "concurrent": calls are made at any time

engVars == <<engine, turns, engLast, engNodeWS, engBase, engOps, engToolCalls, engCaller>>

VARIABLES
    bank,    \* the MemoryBank object: memories (the in-memory list), the records
             \* and the key generator of the "vectors" store of its LocalVectorDB
    mbLog,   \* the DeltaPairs addMemory and removeMemory returned so far
    mbLast,  \* the last MemoryBank call: [op, outcome, before, arg, hits, turn]
    mbOps,   \* number of MemoryBank calls made so far
    mbPending \* the applyDelta calls that wait for their requests, oldest first

mbVars == <<bank, mbLog, mbLast, mbOps, mbPending>>

VARIABLES
    vdb,       \* a LocalVectorDB handle: the records and the key generator of its
               \* "vectors" store, its options, cacheEnabled and inMemoryCache
    vdbLoads,  \* number of enableCache cursors that have not completed
    vdbLast,   \* the last LocalVectorDB call: [op, q, path, outcome, out, before]
    vdbOps     \* number of LocalVectorDB calls made so far

vdbVars == <<vdb, vdbLoads, vdbLast, vdbOps>>

VARIABLES
    pcm,      \* the PlotCardManager object: plotCards (the in-memory list) and
              \* its LocalVectorDB
    pcmLast,  \* the last PlotCardManager call: [op, query, limit, outcome, result, before]
    pcmOps,   \* number of PlotCardManager calls made so far
    pcmEdits  \* the editPlotCard calls suspended at an await

pcmVars == <<pcm, pcmLast, pcmOps, pcmEdits>>

VARIABLES
    idb,         \* the persisted database of a LocalVectorDB: its version and the
                 \* "migrations" and "schema" entries of its _meta store
    migrations,  \* LocalVectorDB.migrations, the static registry: v -> kind of fn
    conn         \* the openDB call of a handle: its phase, the declared version, the
                 \* requests placed on the upgrade transaction, the migrations run

openVars == <<idb, migrations, conn>>

VARIABLES
    wasm,        \* wasmInstance and wasmMemory of a LocalVectorDB handle
    hamLast      \* the last Hamming distance computed: arguments and result

wasmVars == <<wasm, hamLast>>

\* the variables of the stores and retrieval services
restVars == <<mbVars, vdbVars, pcmVars, openVars, wasmVars>>

vars == <<wsVars, treeVars, engVars, restVars>>

\* Rest applied to a value that is computed once: "const name = value; ..."
With(value, Rest(_)) == Rest(value)

S(x) == [t |-> "s", v |-> x]
N(x) == [t |-> "n", v |-> x]
P(x) == [t |-> "p", v |-> x]
Null == [t |-> "z", v |-> 0]
DateObj(n) == [t |-> "d", v |-> n]
O(kv) == [t |-> "o", v |-> kv]
A(xs) == [t |-> "a", v |-> xs]
KV(key, x) == [k |-> key, v |-> x]
Thrown == [t |-> "throw", v |-> 0]

\* decimal array indices as they appear in JSON-pointer paths
Digits == <<"0", "1", "2", "3", "4", "5", "6", "7", "8", "9">>

IsInteger(key) == \E i \in 1..Len(Digits) : Digits[i] = key

ToInt(key) == (CHOOSE i \in 1..Len(Digits) : Digits[i] = key) - 1

\* Date.prototype.toJSON: the ISO string of timestamp n, abstracted to a
\* two-character string "T<n>"
IsoString(n) == <<"T0", "T1", "T2", "T3">>[n + 1]

IsoChars(str) == IF str \in {"T0", "T1", "T2", "T3"}
                 THEN <<"T", CHOOSE d \in {"0", "1", "2", "3"} :
                              str = IsoString(ToInt(d))>>
                 ELSE <<>>

\* typeof x == "object" && x != null
IsObjT(j) == j.t \in {"o", "a", "d"}

IsArray(j) == j.t = "a"

\* JavaScript truthiness
Truthy(j) == CASE j.t = "z" -> FALSE
               [] j.t = "n" -> j.v # 0
               [] j.t = "s" -> j.v # ""
               [] OTHER -> TRUE

IndexOfKey(obj, key) ==
    LET I == {i \in 1..Len(obj.v) : obj.v[i].k = key}
    IN IF I = {} THEN 0 ELSE CHOOSE i \in I : TRUE

\* _objectKeys / Object.keys
ObjectKeys(j) ==
    CASE j.t = "o" -> [i \in 1..Len(j.v) |-> j.v[i].k]
      [] j.t = "a" -> [i \in 1..Len(j.v) |-> Digits[i]]
      [] j.t = "s" -> [i \in 1..Len(IsoChars(j.v)) |-> Digits[i]]
      [] OTHER -> <<>>

\* hasOwnProperty(j, key)
HasOwn(j, key) ==
    CASE j.t = "o" -> IndexOfKey(j, key) # 0
      [] j.t = "a" -> IsInteger(key) /\ ToInt(key) < Len(j.v)
      [] j.t = "s" -> IsInteger(key) /\ ToInt(key) < Len(IsoChars(j.v))
      [] OTHER -> FALSE

\* j[key] for an own property
Child(j, key) ==
    CASE j.t = "o" -> j.v[IndexOfKey(j, key)].v
      [] j.t = "a" -> j.v[ToInt(key) + 1]
      [] j.t = "s" -> S(IsoChars(j.v)[ToInt(key) + 1])
      [] OTHER -> Null

\* obj[key] = x on a plain object: in place when the key exists, else appended
Put(obj, key, x) ==
    LET i == IndexOfKey(obj, key)
    IN IF i = 0 THEN O(Append(obj.v, KV(key, x)))
       ELSE O([obj.v EXCEPT ![i] = KV(key, x)])

RemoveAt(seq, i) == SubSeq(seq, 1, i - 1) \o SubSeq(seq, i + 1, Len(seq))

InsertAt(seq, i, x) == SubSeq(seq, 1, i - 1) \o <<x>> \o SubSeq(seq, i, Len(seq))

\* delete obj[key]
Del(obj, key) ==
    LET i == IndexOfKey(obj, key)
    IN IF i = 0 THEN obj ELSE O(RemoveAt(obj.v, i))

RECURSIVE JsonClone(_)
\* _deepClone = JSON.parse(JSON.stringify(x)): a Date becomes its ISO string
JsonClone(j) ==
    CASE j.t = "d" -> S(IsoString(j.v))
      [] j.t = "o" -> O([i \in 1..Len(j.v) |-> KV(j.v[i].k, JsonClone(j.v[i].v))])
      [] j.t = "a" -> A([i \in 1..Len(j.v) |-> JsonClone(j.v[i])])
      [] OTHER -> j

\* deepCopy of util/objects.ts: a structural copy that keeps Date objects as
\* Date objects; the copy is a distinct object, so the identity test
\* (obj === mirror) of the diff never succeeds on a copy
deepCopy(j) == j

(***************************************************************************)
(* fast-json-patch: compare(tree1, tree2)                                  *)
(***************************************************************************)
OpAdd(path, x) == O(<<KV("op", S("add")), KV("path", P(path)), KV("value", x)>>)
OpReplace(path, x) == O(<<KV("op", S("replace")), KV("path", P(path)), KV("value", x)>>)
OpRemove(path) == O(<<KV("op", S("remove")), KV("path", P(path))>>)

RECURSIVE Generate(_, _, _)
RECURSIVE GenerateOld(_, _, _, _)
RECURSIVE GenerateNew(_, _, _, _)

\* the loop over the old keys, last key first; returns the patches and
\* whether a key was deleted
GenerateOld(mirror, obj, path, i) ==
    IF i = 0 THEN [ops |-> <<>>, deleted |-> FALSE]
    ELSE
      LET key == ObjectKeys(mirror)[i]
          oldVal == Child(mirror, key)
          here ==
            IF HasOwn(obj, key)
            THEN LET newVal == Child(obj, key)
                 IN IF IsObjT(oldVal) /\ IsObjT(newVal)
                       /\ IsArray(oldVal) = IsArray(newVal)
                    THEN [ops |-> Generate(oldVal, newVal, Append(path, key)),
                          deleted |-> FALSE]
                    ELSE IF oldVal # newVal
                         THEN [ops |-> <<OpReplace(Append(path, key), JsonClone(newVal))>>,
                               deleted |-> FALSE]
                         ELSE [ops |-> <<>>, deleted |-> FALSE]
            ELSE IF IsArray(mirror) = IsArray(obj)
                 THEN [ops |-> <<OpRemove(Append(path, key))>>, deleted |-> TRUE]
                 ELSE [ops |-> <<OpReplace(path, obj)>>, deleted |-> FALSE]
          rest == GenerateOld(mirror, obj, path, i - 1)
      IN With(here, LAMBDA h :
           [ops |-> h.ops \o rest.ops, deleted |-> h.deleted \/ rest.deleted])

\* the loop over the new keys, first key first
GenerateNew(mirror, obj, path, i) ==
    IF i > Len(ObjectKeys(obj)) THEN <<>>
    ELSE LET key == ObjectKeys(obj)[i]
         IN (IF ~HasOwn(mirror, key)
             THEN <<OpAdd(Append(path, key), JsonClone(Child(obj, key)))>>
             ELSE <<>>)
            \o GenerateNew(mirror, obj, path, i + 1)

\* _generate(mirror, obj, patches, path)
Generate(mirror, obj0, path) ==
    With(IF obj0.t = "d" THEN S(IsoString(obj0.v)) ELSE obj0, LAMBDA obj :
      With(GenerateOld(mirror, obj, path, Len(ObjectKeys(mirror))), LAMBDA old :
        IF ~old.deleted /\ Len(ObjectKeys(obj)) = Len(ObjectKeys(mirror))
        THEN old.ops
        ELSE old.ops \o GenerateNew(mirror, obj, path, 1)))

compare(tree1, tree2) == Generate(tree1, tree2, <<>>)

(***************************************************************************)
(* fast-json-patch: applyPatch(document, patch, validate = true,           *)
(* mutateDocument = false)                                                 *)
(***************************************************************************)
OpKind(op) == Child(op, "op").v
OpPath(op) == Child(op, "path").v
OpValue(op) == Child(op, "value")

RECURSIVE ApplyAt(_, _, _)
\* applyOperation below the root: obj is the container reached so far, keys
\* the part of the path still to walk.  A missing key before the last one, a
\* missing target of remove/replace, a non-integer or out-of-range array
\* index and a non-object on the way all throw (validateOperation = true).
ApplyAt(obj, keys, op) ==
    LET key == keys[1]
        last == Len(keys) = 1
        kind == OpKind(op)
        exists == HasOwn(obj, key)
    IN
    IF ~exists /\ (~last \/ kind # "add") THEN Thrown
    ELSE IF obj.t = "a"
    THEN IF key # "-" /\ ~IsInteger(key) THEN Thrown
         ELSE LET idx == IF key = "-" THEN Len(obj.v) ELSE ToInt(key)
              IN IF last
                 THEN CASE kind = "add" ->
                             IF idx > Len(obj.v) THEN Thrown
                             ELSE A(InsertAt(obj.v, idx + 1, OpValue(op)))
                        [] kind = "remove" -> A(RemoveAt(obj.v, idx + 1))
                        [] kind = "replace" -> A([obj.v EXCEPT ![idx + 1] = OpValue(op)])
                        [] OTHER -> Thrown
                 ELSE LET next == obj.v[idx + 1]
                      IN IF ~IsObjT(next) THEN Thrown
                         ELSE LET r == ApplyAt(next, Tail(keys), op)
                              IN IF r = Thrown THEN Thrown
                                 ELSE A([obj.v EXCEPT ![idx + 1] = r])
    ELSE IF obj.t = "o"
    THEN IF last
         THEN CASE kind = "add" -> Put(obj, key, OpValue(op))
                [] kind = "remove" -> Del(obj, key)
                [] kind = "replace" -> Put(obj, key, OpValue(op))
                [] OTHER -> Thrown
         ELSE LET next == Child(obj, key)
              IN IF ~IsObjT(next) THEN Thrown
                 ELSE LET r == ApplyAt(next, Tail(keys), op)
                      IN IF r = Thrown THEN Thrown ELSE Put(obj, key, r)
    ELSE Thrown

applyOperation(document, op) ==
    IF Len(OpPath(op)) = 0
    THEN (IF OpKind(op) \in {"add", "replace"} THEN OpValue(op) ELSE Thrown)
    ELSE ApplyAt(document, OpPath(op), op)

RECURSIVE ApplyOps(_, _, _)
\* the loop over the patch; an operation that throws ends it
ApplyOps(document, patch, i) ==
    IF document = Thrown \/ i > Len(patch) THEN document
    ELSE ApplyOps(applyOperation(document, patch[i]), patch, i + 1)

\* the document is JSON-cloned first (mutateDocument = false), then each
\* operation is applied in turn; the result is .newDocument or an exception
applyPatch(document, patch) == ApplyOps(JsonClone(document), patch, 1)

DeltaPair(apply, revert) == O(<<KV("apply", A(apply)), KV("revert", A(revert))>>)

DeltaApply(d) == Child(d, "apply").v
DeltaRevert(d) == Child(d, "revert").v

(***************************************************************************)
(* WorldState (world_state.ts).  The document is {state, plots}.  Every    *)
(* mutator returns [doc |-> the live document afterwards, delta |-> the    *)
(* DeltaPair or Null].                                                     *)
(***************************************************************************)
WSDoc(state, plots) == O(<<KV("state", state), KV("plots", plots)>>)

WSState(doc) == Child(doc, "state")
WSPlots(doc) == Child(doc, "plots")

\* new WorldState(initialState, initialPlots)
WSNew(state, plots) == WSDoc(deepCopy(state), deepCopy(plots))

\* WorldState._createDeltaPair once the mutator has produced newFullObject
WS_createDeltaPair(oldFullObject, newFullObject) ==
    [doc |-> newFullObject,
     delta |-> DeltaPair(compare(oldFullObject, newFullObject),
                         compare(newFullObject, oldFullObject))]

\* WorldState.applyDelta: the new live document, or Thrown (live document
\* untouched) when the patch does not apply
WS_applyDelta(doc, ops) ==
    With(applyPatch(doc, ops), LAMBDA patched :
        IF patched = Thrown THEN Thrown
        ELSE WSDoc(IF HasOwn(patched, "state") THEN WSState(patched) ELSE Null,
                   IF HasOwn(patched, "plots") THEN WSPlots(patched) ELSE Null))

RECURSIVE SetIn(_, _, _)
\* the loop of deepSet: current = current[k] = current[k] || {} and the final
\* assignment; assigning a property on a primitive throws in strict mode
SetIn(current, keys, value) ==
    IF current.t # "o" THEN Thrown
    ELSE IF Len(keys) = 1 THEN Put(current, keys[1], value)
    ELSE LET key == keys[1]
             child == IF HasOwn(current, key) /\ Truthy(Child(current, key))
                      THEN Child(current, key) ELSE O(<<>>)
             r == SetIn(child, Tail(keys), value)
         IN IF r = Thrown THEN Thrown ELSE Put(current, key, r)

WS_deepSet(doc, path, value) ==
    LET st == SetIn(WSState(deepCopy(doc)), path, value)
    IN IF st = Thrown THEN Thrown
       ELSE WS_createDeltaPair(doc, WSDoc(st, WSPlots(doc)))

RECURSIVE deepMerge(_, _)
RECURSIVE MergeKeys(_, _, _, _)
\* the last loop of deepMerge: merge/overwrite result with source's properties
MergeKeys(result, target, source, i) ==
    IF i > Len(source.v) THEN result
    ELSE LET key == source.v[i].k
             srcVal == source.v[i].v
             tgtVal == IF HasOwn(target, key) THEN Child(target, key) ELSE Null
             merged == IF Truthy(srcVal) /\ IsObjT(srcVal)
                       THEN deepMerge(tgtVal, srcVal) ELSE srcVal
         IN MergeKeys(Put(result, key, merged), target, source, i + 1)

\* deepMerge(target, source) of util/objects.ts: builds and RETURNS a new
\* object, target is not modified (plain objects and primitives)
deepMerge(target, source) ==
    IF ~IsObjT(source) THEN source
    ELSE IF ~IsObjT(target) THEN deepCopy(source)
    ELSE IF source.t # "o" \/ target.t # "o" THEN deepCopy(source)
    ELSE MergeKeys(target, target, source, 1)

\* the mutator of patchState: deepMerge(draft.state, partialState) is called
\* and its result dropped, so the draft keeps its state
PatchStateMutator(draft, partialState) ==
    LET merged == deepMerge(WSState(draft), partialState)
    IN draft

WS_patchState(doc, partialState) ==
    WS_createDeltaPair(doc, PatchStateMutator(deepCopy(doc), partialState))

\* the plot pushed by addPlot: {...newPlot, id, created_at: new Date()}
NewPlotObject(newPlot, id, now) ==
    Put(Put(newPlot, "id", S(id)), "created_at", DateObj(now))

WS_addPlot(doc, newPlot, id, now) ==
    WS_createDeltaPair(doc,
        WSDoc(WSState(doc), A(Append(WSPlots(doc).v, NewPlotObject(newPlot, id, now)))))

\* draft.plots.findIndex(p => p.id === plotId), 1-based, 0 when absent
FindPlotIndex(plots, plotId) ==
    LET I == {i \in 1..Len(plots.v) : Child(plots.v[i], "id") = S(plotId)}
    IN IF I = {} THEN 0 ELSE CHOOSE i \in I : \A j \in I : i <= j

RECURSIVE ObjectAssign(_, _, _)
ObjectAssign(target, source, i) ==
    IF i > Len(source.v) THEN target
    ELSE ObjectAssign(Put(target, source.v[i].k, source.v[i].v), source, i + 1)

\* updatePlot: Null delta (and no change) when the plot is not found
WS_updatePlot(doc, plotId, updates) ==
    LET plots == WSPlots(doc)
        i == FindPlotIndex(plots, plotId)
    IN IF i = 0 THEN [doc |-> doc, delta |-> Null]
       ELSE WS_createDeltaPair(doc,
              WSDoc(WSState(doc),
                    A([plots.v EXCEPT ![i] = ObjectAssign(plots.v[i], updates, 1)])))

\* removePlot: Null delta (and no change) when nothing was removed
WS_removePlot(doc, plotId) ==
    LET plots == WSPlots(doc)
        kept == SelectSeq(plots.v, LAMBDA p : Child(p, "id") # S(plotId))
    IN IF Len(kept) = Len(plots.v) THEN [doc |-> doc, delta |-> Null]
       ELSE WS_createDeltaPair(doc, WSDoc(WSState(doc), A(kept)))

(***************************************************************************)
(* StoryTree (story_tree.ts).  The state is kept in the JSON form that     *)
(* _createDeltaPair and applyDelta diff and patch: {nodes, rootNodeId},    *)
(* nodes being the Map as an object in insertion order.                    *)
(***************************************************************************)
TreeDoc(nodes, rootNodeId) == O(<<KV("nodes", nodes), KV("rootNodeId", rootNodeId)>>)

\* new StoryTree()
EmptyTree == TreeDoc(O(<<>>), Null)

TNodes(doc) == Child(doc, "nodes")
TRoot(doc) == Child(doc, "rootNodeId")

StoryNode(id, parentId, childrenIds, turn, deltas) ==
    O(<<KV("id", S(id)), KV("parentId", S(parentId)), KV("childrenIds", A(childrenIds)),
        KV("turn", turn), KV("deltas", A(deltas))>>)

StoryTurn(actor, text) == O(<<KV("actor", S(actor)), KV("text", S(text))>>)

NodeId(node) == Child(node, "id").v
NodeParentId(node) == Child(node, "parentId").v
NodeChildrenIds(node) == [i \in 1..Len(Child(node, "childrenIds").v) |->
                             Child(node, "childrenIds").v[i].v]
NodeDeltas(node) == Child(node, "deltas").v

\* StoryTree.getNode; HasNode is its result being defined
HasNode(doc, id) == HasOwn(TNodes(doc), id)
getNode(doc, id) == Child(TNodes(doc), id)

\* StoryTree.serialize(): the ordered [id, node] entries and the root id
serialize(doc) == [nodes |-> TNodes(doc).v, rootNodeId |-> TRoot(doc)]

\* StoryTree._createDeltaPair once the mutator has produced the draft
ST_createDeltaPair(oldState, draftState) ==
    [doc |-> draftState,
     delta |-> DeltaPair(compare(oldState, draftState), compare(draftState, oldState))]

\* StoryTree.applyDelta: the new state, or Thrown with the state untouched
ST_applyDelta(doc, ops) ==
    With(applyPatch(doc, ops), LAMBDA patched :
        IF patched = Thrown THEN Thrown
        ELSE TreeDoc(TNodes(patched),
                     IF HasOwn(patched, "rootNodeId") THEN TRoot(patched) ELSE Null))

\* the mutator of addNode on the draft; Null when it returns false
AddNodeMutator(draft, node) ==
    LET id == NodeId(node)
        parentId == NodeParentId(node)
        hasRoot == Truthy(TRoot(draft))
    IN IF parentId = "" /\ hasRoot THEN Null
       ELSE With(Put(TNodes(draft), id, node), LAMBDA nodes1 :
              LET root1 == IF parentId = "" /\ ~hasRoot THEN S(id) ELSE TRoot(draft)
                  nodes2 ==
                    IF parentId # "" /\ HasOwn(nodes1, parentId)
                    THEN With(Child(nodes1, parentId), LAMBDA parent :
                           IF \A i \in 1..Len(NodeChildrenIds(parent)) :
                                  NodeChildrenIds(parent)[i] # id
                           THEN Put(nodes1, parentId,
                                    Put(parent, "childrenIds",
                                        A(Append(Child(parent, "childrenIds").v, S(id)))))
                           ELSE nodes1)
                    ELSE nodes1
              IN TreeDoc(nodes2, root1))

\* addNode storing the node before the test for a second root
ST_addNode_SetBeforeCheck(doc, node) ==
    With(AddNodeMutator(deepCopy(doc), node), LAMBDA draft :
        IF draft = Null
        THEN [doc |-> TreeDoc(Put(TNodes(doc), NodeId(node), node), TRoot(doc)),
              delta |-> Null]
        ELSE ST_createDeltaPair(doc, draft))

\* StoryTree.addNode: [doc, delta], delta Null when the call is rejected
ST_addNode(doc, node) ==
    With(AddNodeMutator(deepCopy(doc), node), LAMBDA draft :
        IF draft = Null THEN [doc |-> doc, delta |-> Null]
        ELSE ST_createDeltaPair(doc, draft))

\* a variant that stores a new node in place of the old one
ST_editNode_ReplacesNode(doc, nodeId, newTurnData) ==
    IF ~HasNode(doc, nodeId) THEN [doc |-> doc, delta |-> Null]
    ELSE ST_createDeltaPair(doc,
           TreeDoc(Put(TNodes(doc), nodeId, StoryNode(nodeId, "", <<>>, newTurnData, <<>>)),
                   TRoot(doc)))

\* StoryTree.editNode
ST_editNode(doc, nodeId, newTurnData) ==
    IF ~HasNode(doc, nodeId) THEN [doc |-> doc, delta |-> Null]
    ELSE ST_createDeltaPair(doc,
           TreeDoc(Put(TNodes(doc), nodeId, Put(getNode(doc, nodeId), "turn", newTurnData)),
                   TRoot(doc)))

\* StoryTree.updateNode
ST_updateNode(doc, nodeId, newTurn, newDeltas) ==
    IF ~HasNode(doc, nodeId) THEN [doc |-> doc, delta |-> Null]
    ELSE ST_createDeltaPair(doc,
           TreeDoc(Put(TNodes(doc), nodeId,
                       Put(Put(getNode(doc, nodeId), "turn", newTurn),
                           "deltas", A(newDeltas))),
                   TRoot(doc)))

RECURSIVE DeleteLoop(_, _, _)
\* the stack loop of deleteBranch: pop, push the children, delete, record
DeleteLoop(nodes, stack, deletedNodes) ==
    IF Len(stack) = 0 THEN [nodes |-> nodes, deletedNodes |-> deletedNodes]
    ELSE LET currentId == stack[Len(stack)]
             popped == SubSeq(stack, 1, Len(stack) - 1)
         IN IF HasOwn(nodes, currentId)
            THEN LET currentNode == Child(nodes, currentId)
                 IN DeleteLoop(Del(nodes, currentId),
                               popped \o NodeChildrenIds(currentNode),
                               Append(deletedNodes, currentNode))
            ELSE DeleteLoop(nodes, popped, deletedNodes)

Reverse(seq) == [i \in 1..Len(seq) |-> seq[Len(seq) + 1 - i]]

\* deleteBranch with the delta pair taken after the parent was unlinked, so
\* that the revert list does not put the id back into its parent's childrenIds
ST_deleteBranch_UnlinkOutsideDelta(doc, nodeId) ==
    IF ~HasNode(doc, nodeId) \/ S(nodeId) = TRoot(doc)
    THEN [doc |-> doc, delta |-> Null, deletedNodes |-> <<>>]
    ELSE LET node == getNode(doc, nodeId)
             parentId == NodeParentId(node)
             nodes0 == TNodes(doc)
             nodes1 ==
               IF parentId # "" /\ HasOwn(nodes0, parentId)
               THEN LET parent == Child(nodes0, parentId)
                    IN Put(nodes0, parentId,
                           Put(parent, "childrenIds",
                               A(SelectSeq(Child(parent, "childrenIds").v,
                                           LAMBDA c : c # S(nodeId)))))
               ELSE nodes0
         IN With(DeleteLoop(nodes1, <<nodeId>>, <<>>), LAMBDA loop :
              With(ST_createDeltaPair(TreeDoc(nodes1, TRoot(doc)),
                                          TreeDoc(loop.nodes, TRoot(doc))), LAMBDA r :
                [doc |-> r.doc, delta |-> r.delta,
                 deletedNodes |-> Reverse(loop.deletedNodes)]))

\* StoryTree.deleteBranch: [doc, delta, deletedNodes], delta Null when the
\* node is unknown or is the root
ST_deleteBranch(doc, nodeId) ==
    IF ~HasNode(doc, nodeId) \/ S(nodeId) = TRoot(doc)
    THEN [doc |-> doc, delta |-> Null, deletedNodes |-> <<>>]
    ELSE LET node == getNode(doc, nodeId)
             parentId == NodeParentId(node)
             nodes0 == TNodes(doc)
             nodes1 ==
               IF parentId # "" /\ HasOwn(nodes0, parentId)
               THEN LET parent == Child(nodes0, parentId)
                    IN Put(nodes0, parentId,
                           Put(parent, "childrenIds",
                               A(SelectSeq(Child(parent, "childrenIds").v,
                                           LAMBDA c : c # S(nodeId)))))
               ELSE nodes0
         IN With(DeleteLoop(nodes1, <<nodeId>>, <<>>), LAMBDA loop :
              With(ST_createDeltaPair(doc, TreeDoc(loop.nodes, TRoot(doc))), LAMBDA r :
                [doc |-> r.doc, delta |-> r.delta,
                 deletedNodes |-> Reverse(loop.deletedNodes)]))

RECURSIVE PathUp(_, _, _)
\* the loop of getPathToNode, leaf first; fuel bounds the walk, which in the
\* code does not terminate on a parent cycle
PathUp(doc, nodeId, fuel) ==
    IF fuel = 0 \/ ~HasNode(doc, nodeId) THEN <<>>
    ELSE LET current == getNode(doc, nodeId)
         IN IF NodeParentId(current) = "" THEN <<current>>
            ELSE <<current>> \o PathUp(doc, NodeParentId(current), fuel - 1)

\* StoryTree.getPathToNode: root first
getPathToNode(doc, nodeId) == Reverse(PathUp(doc, nodeId, Len(TNodes(doc).v)))

\* StoryTree.getDepth
getDepth(doc, nodeId) == Len(getPathToNode(doc, nodeId))

(***************************************************************************)
(* SpecWS: a WorldState is constructed, mutated MaxMutations times at      *)
(* most, and then either the reverts are applied last-first or the apply   *)
(* lists are replayed on a fresh WorldState built from the same document.  *)
(***************************************************************************)
MaxMutations == 3

PlotIds == <<"plot-1", "plot-2", "plot-3", "plot-4">>
UnknownPlotId == "plot-x"
Timestamps == {0, 1}

InitialStates == {O(<<KV("player", O(<<KV("hp", N(80))>>))>>), O(<<>>)}

DeepSetPaths == {<<"player", "hp">>, <<"gold">>, <<"player", "hp", "max">>}
DeepSetValues == {N(100), N(80)}
PartialStates == {O(<<KV("player", O(<<KV("hp", N(50))>>))>>),
                  O(<<KV("location", S("Tavern"))>>)}
NewPlots == {O(<<KV("title", S("Main Quest")), KV("player_alignment", N(10)),
                 KV("created_at_turn", N(1))>>)}
PlotUpdates == {O(<<KV("player_alignment", N(15))>>)}

NoMutation == [op |-> "none", arg |-> Null, before |-> Null]

\* the variables of the other components, untouched by a WorldState run
WSFrame == UNCHANGED <<treeVars, engVars, restVars>>

EngIdle ==
    /\ engine = Null
    /\ turns = <<>>
    /\ engLast = Null
    /\ engNodeWS = <<>>
    /\ engBase = Null
    /\ engOps = 0
    /\ engToolCalls = 0
    /\ engCaller = "off"

TreeIdle ==
    /\ treeDoc = Null
    /\ treePhase = "off"
    /\ treeBefore = Null
    /\ treeResult = Null
    /\ treeDeleted = FALSE
    /\ treeOps = 0
    /\ treeLast = Null

MBIdle ==
    /\ bank = Null
    /\ mbLog = <<>>
    /\ mbLast = Null
    /\ mbOps = 0
    /\ mbPending = <<>>

VDBIdle ==
    /\ vdb = Null
    /\ vdbLoads = 0
    /\ vdbLast = Null
    /\ vdbOps = 0

PCMIdle ==
    /\ pcm = Null
    /\ pcmLast = Null
    /\ pcmOps = 0
    /\ pcmEdits = <<>>

OpenIdle ==
    /\ idb = Null
    /\ migrations = Null
    /\ conn = Null

WasmIdle ==
    /\ wasm = Null
    /\ hamLast = Null

\* no store and no retrieval service in the run
RestIdle == MBIdle /\ VDBIdle /\ PCMIdle /\ OpenIdle /\ WasmIdle

WSInit ==
    /\ TreeIdle
    /\ EngIdle
    /\ RestIdle
    /\ \E st \in InitialStates : wsInit = WSNew(st, A(<<>>))
    /\ wsDoc = wsInit
    /\ wsLog = <<>>
    /\ wsEnd = Null
    /\ wsReplay = Null
    /\ wsPhase = "mutate"
    /\ wsIdx = 0
    /\ wsPlotCtr = 0
    /\ wsLast = NoMutation

CanMutate == wsPhase = "mutate" /\ Len(wsLog) < MaxMutations

\* commit of a successful mutation r = [doc, delta]
WSCommit(r, op, arg) ==
    /\ wsDoc' = r.doc
    /\ wsLog' = Append(wsLog, r.delta)
    /\ wsLast' = [op |-> op, arg |-> arg, before |-> wsDoc]
    /\ UNCHANGED <<wsInit, wsEnd, wsReplay, wsPhase, wsIdx>>

WSDeepSet ==
    /\ CanMutate
    /\ \E path \in DeepSetPaths, value \in DeepSetValues :
         LET r == WS_deepSet(wsDoc, path, value)
         IN /\ r # Thrown
            /\ WSCommit(r, "deepSet", value)
    /\ UNCHANGED wsPlotCtr
    /\ WSFrame

WSPatchState ==
    /\ CanMutate
    /\ \E partial \in PartialStates :
         WSCommit(WS_patchState(wsDoc, partial), "patchState", partial)
    /\ UNCHANGED wsPlotCtr
    /\ WSFrame

WSAddPlot ==
    /\ CanMutate
    /\ wsPlotCtr < Len(PlotIds)
    /\ \E newPlot \in NewPlots, now \in Timestamps :
         WSCommit(WS_addPlot(wsDoc, newPlot, PlotIds[wsPlotCtr + 1], now),
                  "addPlot", newPlot)
    /\ wsPlotCtr' = wsPlotCtr + 1
    /\ WSFrame

\* an update of an unknown plot returns null: not a successful mutation
WSUpdatePlot ==
    /\ CanMutate
    /\ \E i \in 1..Len(PlotIds), updates \in PlotUpdates :
         LET r == WS_updatePlot(wsDoc, PlotIds[i], updates)
         IN /\ r.delta # Null
            /\ WSCommit(r, "updatePlot", updates)
    /\ UNCHANGED wsPlotCtr
    /\ WSFrame

WSRemovePlot ==
    /\ CanMutate
    /\ \E i \in 1..Len(PlotIds) :
         LET r == WS_removePlot(wsDoc, PlotIds[i])
         IN /\ r.delta # Null
            /\ WSCommit(r, "removePlot", S(PlotIds[i]))
    /\ UNCHANGED wsPlotCtr
    /\ WSFrame

WSStartRevert ==
    /\ wsPhase = "mutate"
    /\ Len(wsLog) > 0
    /\ wsPhase' = "revert"
    /\ wsIdx' = Len(wsLog)
    /\ wsEnd' = wsDoc
    /\ UNCHANGED <<wsDoc, wsInit, wsLog, wsReplay, wsPlotCtr, wsLast>>
    /\ WSFrame

\* worldState.applyDelta(d.revert) for the last delta not yet reverted
WSRevertStep ==
    /\ wsPhase = "revert"
    /\ LET r == WS_applyDelta(wsDoc, DeltaRevert(wsLog[wsIdx]))
       IN IF r = Thrown
          THEN /\ wsPhase' = "revertFailed"
               /\ UNCHANGED <<wsDoc, wsIdx>>
          ELSE /\ wsDoc' = r
               /\ wsIdx' = wsIdx - 1
               /\ wsPhase' = IF wsIdx = 1 THEN "reverted" ELSE "revert"
    /\ UNCHANGED <<wsInit, wsLog, wsEnd, wsReplay, wsPlotCtr, wsLast>>
    /\ WSFrame

WSStartReplay ==
    /\ wsPhase = "mutate"
    /\ Len(wsLog) > 0
    /\ wsPhase' = "replay"
    /\ wsIdx' = 1
    /\ wsEnd' = wsDoc
    /\ wsReplay' = WSNew(WSState(wsInit), WSPlots(wsInit))
    /\ UNCHANGED <<wsDoc, wsInit, wsLog, wsPlotCtr, wsLast>>
    /\ WSFrame

\* fresh.applyDelta(d.apply) for the next delta in order
WSReplayStep ==
    /\ wsPhase = "replay"
    /\ LET r == WS_applyDelta(wsReplay, DeltaApply(wsLog[wsIdx]))
       IN IF r = Thrown
          THEN /\ wsPhase' = "replayFailed"
               /\ UNCHANGED <<wsReplay, wsIdx>>
          ELSE /\ wsReplay' = r
               /\ wsIdx' = wsIdx + 1
               /\ wsPhase' = IF wsIdx = Len(wsLog) THEN "replayed" ELSE "replay"
    /\ UNCHANGED <<wsDoc, wsInit, wsLog, wsEnd, wsPlotCtr, wsLast>>
    /\ WSFrame

WSNext ==
    \/ WSDeepSet
    \/ WSPatchState
    \/ WSAddPlot
    \/ WSUpdatePlot
    \/ WSRemovePlot
    \/ WSStartRevert
    \/ WSRevertStep
    \/ WSStartReplay
    \/ WSReplayStep

SpecWS == WSInit /\ [][WSNext]_vars

\* equality of two documents as serialized JSON
SameJson(a, b) == JsonClone(a) = JsonClone(b)

\* C7: reverting d_n .. d_1 in that order restores {state, plots} exactly
\* to its value before d_1, and no revert fails.
C7_RevertRestores ==
    /\ wsPhase # "revertFailed"
    /\ (wsPhase = "reverted" => SameJson(wsDoc, wsInit))

\* C8: applying the apply lists in order to a fresh WorldState equal to D0
\* yields the {state, plots} the mutations themselves produced.
C8_ReplayEqualsMutations ==
    /\ wsPhase # "replayFailed"
    /\ (wsPhase = "replayed" => SameJson(wsReplay, wsEnd))

RECURSIVE Covers(_, _, _)
\* every leaf of partial has partial's value at the same path in state
Covers(state, partial, i) ==
    IF i > Len(partial.v) THEN TRUE
    ELSE LET key == partial.v[i].k
             pv == partial.v[i].v
         IN /\ state.t = "o"
            /\ HasOwn(state, key)
            /\ IF pv.t = "o" THEN Covers(Child(state, key), pv, 1)
               ELSE Child(state, key) = pv
            /\ Covers(state, partial, i + 1)

\* keys of state that partial does not mention are unchanged
OtherKeysKept(before, after, partial) ==
    \A i \in 1..Len(before.v) :
        LET key == before.v[i].k
        IN ~HasOwn(partial, key) =>
              HasOwn(after, key) /\ Child(after, key) = before.v[i].v

\* C9: patchState(partial) deep-merges partial into the live state and the
\* returned apply ops reproduce the change on the pre-call state.
C9_PatchStateMerges ==
    (wsLast.op = "patchState" /\ wsPhase = "mutate") =>
        /\ Covers(WSState(wsDoc), wsLast.arg, 1)
        /\ OtherKeysKept(WSState(wsLast.before), WSState(wsDoc), wsLast.arg)
        /\ LET r == WS_applyDelta(wsLast.before, DeltaApply(wsLog[Len(wsLog)]))
           IN r # Thrown /\ SameJson(r, wsDoc)

(***************************************************************************)
(* SpecTree: addNode and deleteBranch calls with node ids and parent ids   *)
(* drawn from a small set (an unknown parent id included), and             *)
(* applyDelta(delta.revert) right after a deleteBranch.                    *)
(***************************************************************************)
MaxTreeOps == 3

NodeIds == {"n1", "n2", "n3"}
GhostId == "ghost"
ParentIds == NodeIds \cup {"", GhostId}

TreeFrame == UNCHANGED <<wsVars, engVars, restVars>>

WSIdle ==
    /\ wsDoc = Null
    /\ wsInit = Null
    /\ wsLog = <<>>
    /\ wsEnd = Null
    /\ wsReplay = Null
    /\ wsPhase = "off"
    /\ wsIdx = 0
    /\ wsPlotCtr = 0
    /\ wsLast = NoMutation

PlainNode(id, parentId) ==
    StoryNode(id, parentId, <<>>, StoryTurn("player", "text"), <<>>)

\* a tree built by addNode: root n1 with the children n2 and n3
TwoChildrenTree ==
    ST_addNode(ST_addNode(ST_addNode(EmptyTree, PlainNode("n1", "")).doc,
                          PlainNode("n2", "n1")).doc,
               PlainNode("n3", "n1")).doc

TreeInit ==
    /\ WSIdle
    /\ EngIdle
    /\ RestIdle
    /\ treeDoc \in {EmptyTree, TwoChildrenTree}
    /\ treePhase = "idle"
    /\ treeBefore = Null
    /\ treeResult = Null
    /\ treeDeleted = FALSE
    /\ treeOps = 0
    /\ treeLast = Null

\* the record of a call on the tree
TreeCall(op, id, parentId, returned) ==
    [op |-> op, id |-> id, parentId |-> parentId, returned |-> returned,
     before |-> treeDoc]

TAddNode ==
    /\ treePhase # "revertFailed"
    /\ treeOps < MaxTreeOps
    /\ \E id \in NodeIds, parentId \in ParentIds :
         With(ST_addNode(treeDoc, PlainNode(id, parentId)), LAMBDA r :
           /\ treeDoc' = r.doc
           /\ treeLast' = TreeCall("addNode", id, parentId, r.delta))
    /\ treePhase' = "idle"
    /\ treeOps' = treeOps + 1
    /\ UNCHANGED <<treeBefore, treeResult, treeDeleted>>
    /\ TreeFrame

TDeleteBranch ==
    /\ treePhase # "revertFailed"
    /\ treeOps < MaxTreeOps
    /\ treeOps' = treeOps + 1
    /\ \E id \in NodeIds :
         LET r == ST_deleteBranch(treeDoc, id)
         IN /\ r.delta # Null
            /\ treeDoc' = r.doc
            /\ treeResult' = [id |-> id, deletedNodes |-> r.deletedNodes, delta |-> r.delta]
            /\ treeLast' = TreeCall("deleteBranch", id, "", r.delta)
    /\ treeBefore' = treeDoc
    /\ treePhase' = "deleted"
    /\ treeDeleted' = TRUE
    /\ TreeFrame

\* tree.applyDelta(deleted.delta.revert) right after the deleteBranch
TRevertDelete ==
    /\ treePhase = "deleted"
    /\ LET r == ST_applyDelta(treeDoc, DeltaRevert(treeResult.delta))
       IN IF r = Thrown
          THEN treePhase' = "revertFailed" /\ UNCHANGED treeDoc
          ELSE treePhase' = "reverted" /\ treeDoc' = r
    /\ UNCHANGED <<treeBefore, treeResult, treeDeleted, treeOps, treeLast>>
    /\ TreeFrame

\* deleteBranch of the root or of an id the tree does not hold: null
TDeleteBranchRejected ==
    /\ treePhase # "revertFailed"
    /\ treeOps < MaxTreeOps
    /\ treeOps' = treeOps + 1
    /\ \E id \in NodeIds \cup {GhostId} :
         With(ST_deleteBranch(treeDoc, id), LAMBDA r :
           /\ r.delta = Null
           /\ treeDoc' = r.doc
           /\ treeLast' = TreeCall("deleteBranch", id, "", r.delta))
    /\ treePhase' = "idle"
    /\ UNCHANGED <<treeBefore, treeResult, treeDeleted>>
    /\ TreeFrame

\* the turn an edit gives to a node
EditedTurn == StoryTurn("player", "edited")

\* the ids editNode and updateNode are called with: one the tree may hold
\* and one it never holds
EditIds == {"n2", GhostId}

TEditNode ==
    /\ treePhase # "revertFailed"
    /\ treeOps < MaxTreeOps
    /\ treeOps' = treeOps + 1
    /\ \E id \in EditIds :
         With(ST_editNode(treeDoc, id, EditedTurn), LAMBDA r :
           /\ treeDoc' = r.doc
           /\ treeLast' = TreeCall("editNode", id, "", r.delta))
    /\ treePhase' = "idle"
    /\ UNCHANGED <<treeBefore, treeResult, treeDeleted>>
    /\ TreeFrame

TUpdateNode ==
    /\ treePhase # "revertFailed"
    /\ treeOps < MaxTreeOps
    /\ treeOps' = treeOps + 1
    /\ \E id \in EditIds :
         With(ST_updateNode(treeDoc, id, EditedTurn, <<>>), LAMBDA r :
           /\ treeDoc' = r.doc
           /\ treeLast' = TreeCall("updateNode", id, "", r.delta))
    /\ treePhase' = "idle"
    /\ UNCHANGED <<treeBefore, treeResult, treeDeleted>>
    /\ TreeFrame

TreeNext ==
    \/ TAddNode
    \/ TDeleteBranch
    \/ TDeleteBranchRejected
    \/ TEditNode
    \/ TUpdateNode
    \/ TRevertDelete

SpecTree == TreeInit /\ [][TreeNext]_vars

TreeNodeSeq(doc) == [i \in 1..Len(TNodes(doc).v) |-> TNodes(doc).v[i].v]

\* every non-root node's parentId resolves to a live node
ParentsResolve(doc) ==
    \A i \in 1..Len(TreeNodeSeq(doc)) :
        LET n == TreeNodeSeq(doc)[i]
        IN NodeParentId(n) # "" => HasNode(doc, NodeParentId(n))

\* every id listed in a childrenIds resolves to a live node
ChildrenResolve(doc) ==
    \A i \in 1..Len(TreeNodeSeq(doc)) :
        LET cs == NodeChildrenIds(TreeNodeSeq(doc)[i])
        IN \A j \in 1..Len(cs) : HasNode(doc, cs[j])

\* C4: after any sequence of addNode and deleteBranch calls every non-root
\* node's parentId and every childrenIds entry resolves to a live node.
C4_NoDanglingReference ==
    treePhase \in {"idle", "deleted"} => ParentsResolve(treeDoc) /\ ChildrenResolve(treeDoc)

\* empty tree, or exactly one node with an empty parentId, named by rootNodeId
OneRoot(doc) ==
    \/ Len(TreeNodeSeq(doc)) = 0 /\ ~Truthy(TRoot(doc))
    \/ /\ Cardinality({i \in 1..Len(TreeNodeSeq(doc)) :
                          NodeParentId(TreeNodeSeq(doc)[i]) = ""}) = 1
       /\ \E i \in 1..Len(TreeNodeSeq(doc)) :
            /\ NodeParentId(TreeNodeSeq(doc)[i]) = ""
            /\ TRoot(doc) = S(NodeId(TreeNodeSeq(doc)[i]))

NoDuplicateChildren(doc) ==
    \A i \in 1..Len(TreeNodeSeq(doc)) :
        LET cs == NodeChildrenIds(TreeNodeSeq(doc)[i])
        IN \A j, k \in 1..Len(cs) : cs[j] = cs[k] => j = k

RECURSIVE ReachesRoot(_, _, _)
\* following parentId from id reaches a node with an empty parentId within
\* fuel steps, that is without revisiting a node
ReachesRoot(doc, id, fuel) ==
    /\ fuel > 0
    /\ HasNode(doc, id)
    /\ \/ NodeParentId(getNode(doc, id)) = ""
       \/ ReachesRoot(doc, NodeParentId(getNode(doc, id)), fuel - 1)

Acyclic(doc) ==
    \A i \in 1..Len(TreeNodeSeq(doc)) :
        ReachesRoot(doc, NodeId(TreeNodeSeq(doc)[i]), Len(TreeNodeSeq(doc)))

\* C5: after any sequence of addNode calls the tree is empty or has exactly
\* one root named by rootNodeId, no childrenIds holds an id twice, and every
\* node reaches the root through parentId links without a cycle.
C5_AddNodeKeepsTreeShape ==
    ~treeDeleted /\ treePhase = "idle" =>
        OneRoot(treeDoc) /\ NoDuplicateChildren(treeDoc) /\ Acyclic(treeDoc)

SameTreeAsMap(a, b) ==
    /\ TRoot(a) = TRoot(b)
    /\ Len(TNodes(a).v) = Len(TNodes(b).v)
    /\ \A i \in 1..Len(TNodes(a).v) :
          LET id == TNodes(a).v[i].k
          IN HasNode(b, id) /\ getNode(b, id) = getNode(a, id)

MBDoc(memories) == O(<<KV("memories", memories)>>)

Memory(id, text, turn) ==
    O(<<KV("id", N(id)), KV("text", S(text)), KV("created_at_turn", N(turn)),
        KV("last_accessed_at_turn", N(turn))>>)

\* MemoryBank._createDeltaPair once the mutator has produced the new list
MB_createDeltaPair(oldMemories, newMemories) ==
    [memories |-> newMemories,
     delta |-> DeltaPair(compare(MBDoc(oldMemories), MBDoc(newMemories)),
                         compare(MBDoc(newMemories), MBDoc(oldMemories)))]

\* MemoryBank.applyDelta: the target list, or Thrown (a rejected promise,
\* memories untouched) when the patch does not apply to {memories}
MB_applyDelta(memories, ops) ==
    With(applyPatch(MBDoc(deepCopy(memories)), ops), LAMBDA patched :
        IF patched = Thrown THEN Thrown
        ELSE IF patched.t # "o" \/ ~HasOwn(patched, "memories") THEN Thrown
        ELSE IF Child(patched, "memories").t # "a" THEN Thrown
        ELSE Child(patched, "memories"))

\* MemoryBank.addMemory once the embedding and the insert have answered
MB_addMemory(memories, newId, text, currentTurn) ==
    MB_createDeltaPair(memories, A(Append(memories.v, Memory(newId, text, currentTurn))))

\* a search that stamps the first memory of the list only
MB_search_FirstOnly(memories, hitIds, currentTurn) ==
    A([i \in 1..Len(memories.v) |->
          IF i = 1 /\ Child(memories.v[i], "id").v \in hitIds
          THEN Put(memories.v[i], "last_accessed_at_turn", N(currentTurn))
          ELSE memories.v[i]])

\* MemoryBank.search, the loop over the results of the query: for every
\* result the first memory of the list with that id (this.memories.find)
\* gets last_accessed_at_turn = currentTurn
MB_search(memories, hitIds, currentTurn) ==
    A([i \in 1..Len(memories.v) |->
          IF /\ Child(memories.v[i], "id").v \in hitIds
             /\ \A j \in 1..(i - 1) :
                    Child(memories.v[j], "id") # Child(memories.v[i], "id")
          THEN Put(memories.v[i], "last_accessed_at_turn", N(currentTurn))
          ELSE memories.v[i]])

MemoryIds(memories) == {Child(memories.v[i], "id").v : i \in 1..Len(memories.v)}

(***************************************************************************)
(* GameEngine (story_tree.ts, second part).  The engine is a record of     *)
(* its fields; worldState, storyTree and memories are the documents of the *)
(* objects it owns.  An operation returns [e |-> the engine afterwards,    *)
(* ...]; threw |-> TRUE means an exception left the operation at that      *)
(* point, with the engine as mutated so far.                               *)
(***************************************************************************)
\* new GameEngine(providerRegistry, initialConfig)
NewEngine(directorEnabled, memoryGenerationInterval) ==
    [directorEnabled |-> directorEnabled,
     memoryGenerationInterval |-> memoryGenerationInterval,
     worldState |-> WSNew(O(<<>>), A(<<>>)),
     storyTree |-> EmptyTree,
     memories |-> A(<<>>),
     dbNextId |-> 1,
     selectedNodeId |-> Null,
     isInitialized |-> FALSE,
     turnCounter |-> 0,
     undoStack |-> <<>>,
     redoStack |-> <<>>,
     nodeCtr |-> 0,
     plotCtr |-> 0]

\* the ids crypto.randomUUID() hands out for story nodes
NodeName(k) == "n" \o ToString(k)

EngineAction(type, fromNodeId, toNodeId, tree, game) ==
    [type |-> type, fromNodeId |-> fromNodeId, toNodeId |-> toNodeId,
     tree |-> tree, game |-> game]

\* a push that leaves the redo stack as it is
_pushToUndo_KeepRedo(e, action) ==
    [e EXCEPT !.undoStack = Append(@, action)]

_pushToUndo(e, action) ==
    [e EXCEPT !.undoStack = Append(@, action), !.redoStack = <<>>]

RECURSIVE FlatOps(_, _, _)
\* deltas.flatMap(d => d.apply) or (d => d.revert), from the i-th delta on
FlatOps(deltas, direction, i) ==
    IF i > Len(deltas) THEN <<>>
    ELSE (IF direction = "apply" THEN DeltaApply(deltas[i]) ELSE DeltaRevert(deltas[i]))
         \o FlatOps(deltas, direction, i + 1)

\* a null among the deltas makes d.apply a TypeError
HasNullDelta(deltas) == \E i \in 1..Len(deltas) : deltas[i] = Null

_combineDeltas(deltas) ==
    LET validDeltas == SelectSeq(deltas, LAMBDA d : d # Null)
    IN IF Len(validDeltas) = 0 THEN Null
       ELSE DeltaPair(FlatOps(validDeltas, "apply", 1),
                      Reverse(FlatOps(validDeltas, "revert", 1)))

RECURSIVE ApplyGameDeltasFrom(_, _, _, _)
\* the loop of _applyGameDeltas: worldState.applyDelta(ops) throws out of the
\* loop; memoryBank.applyDelta(ops) is not awaited, its rejection is dropped
ApplyGameDeltasFrom(e, deltas, direction, i) ==
    IF i > Len(deltas) THEN [e |-> e, threw |-> FALSE]
    ELSE IF deltas[i] = Null THEN ApplyGameDeltasFrom(e, deltas, direction, i + 1)
    ELSE With(IF direction = "apply" THEN DeltaApply(deltas[i])
              ELSE DeltaRevert(deltas[i]), LAMBDA ops :
         With(WS_applyDelta(e.worldState, ops), LAMBDA w :
           IF w = Thrown THEN [e |-> e, threw |-> TRUE]
           ELSE With(MB_applyDelta(e.memories, ops), LAMBDA m :
                  ApplyGameDeltasFrom(
                      [e EXCEPT !.worldState = w,
                                !.memories = IF m = Thrown THEN @ ELSE m],
                      deltas, direction, i + 1))))

_applyGameDeltas(e, deltas, direction) == ApplyGameDeltasFrom(e, deltas, direction, 1)

RECURSIVE FlatNodeDeltas(_, _)
\* path.flatMap(node => node.deltas)
FlatNodeDeltas(path, i) ==
    IF i > Len(path) THEN <<>>
    ELSE NodeDeltas(path[i]) \o FlatNodeDeltas(path, i + 1)

RECURSIVE CommonAncestorIndex(_, _, _)
\* the last index (0-based, -1 when none) up to which both paths agree
CommonAncestorIndex(fromPath, toPath, i) ==
    IF i > Len(fromPath) \/ i > Len(toPath) THEN i - 2
    ELSE IF NodeId(fromPath[i]) = NodeId(toPath[i])
         THEN CommonAncestorIndex(fromPath, toPath, i + 1)
         ELSE i - 2

\* _syncGameState from "if (revertDeltas.length === 0 && ...)" to its end
SyncDeltas(e, revertDeltas, applyDeltas) ==
    IF Len(revertDeltas) = 0 /\ Len(applyDeltas) = 0
    THEN [e |-> e, delta |-> Null, threw |-> FALSE]
    ELSE With(_applyGameDeltas(e, revertDeltas, "revert"), LAMBDA r1 :
           IF r1.threw THEN [e |-> r1.e, delta |-> Null, threw |-> TRUE]
           ELSE With(_applyGameDeltas(r1.e, applyDeltas, "apply"), LAMBDA r2 :
                  IF r2.threw \/ HasNullDelta(applyDeltas) \/ HasNullDelta(revertDeltas)
                  THEN [e |-> r2.e, delta |-> Null, threw |-> TRUE]
                  ELSE [e |-> r2.e,
                        delta |-> DeltaPair(
                            FlatOps(applyDeltas, "apply", 1)
                              \o FlatOps(revertDeltas, "revert", 1),
                            FlatOps(revertDeltas, "apply", 1)
                              \o FlatOps(applyDeltas, "revert", 1)),
                        threw |-> FALSE]))

\* GameEngine._syncGameState: [e, delta, threw]
_syncGameState(e, fromId, toId) ==
    IF fromId = toId THEN [e |-> e, delta |-> Null, threw |-> FALSE]
    ELSE
      With(IF fromId # Null THEN getPathToNode(e.storyTree, fromId.v) ELSE <<>>,
           LAMBDA fromPath :
      With(IF toId # Null THEN getPathToNode(e.storyTree, toId.v) ELSE <<>>,
           LAMBDA toPath :
      With(CommonAncestorIndex(fromPath, toPath, 1), LAMBDA commonAncestorIndex :
        LET revertPath == Reverse(SubSeq(fromPath, commonAncestorIndex + 2, Len(fromPath)))
            revertDeltas == FlatNodeDeltas(revertPath, 1)
            applyPath == SubSeq(toPath, commonAncestorIndex + 2, Len(toPath))
            applyDeltas == FlatNodeDeltas(applyPath, 1)
        IN SyncDeltas(e, revertDeltas, applyDeltas))))

\* what the director model may ask for in one tool call
DirectorPartialState == O(<<KV("location", S("Tavern"))>>)
DirectorNewPlot ==
    O(<<KV("title", S("Quest")), KV("description", S("d")), KV("player_alignment", N(1))>>)
DirectorPlotUpdates == O(<<KV("player_alignment", N(2))>>)
DirectorNow == 0

ToolCall(name, plotId) == [name |-> name, plotId |-> plotId]

\* deltas.push(<the call's result>) after a WorldState mutator returned r
ToolResult(e, r) == [e |-> [e EXCEPT !.worldState = r.doc], r |-> r.delta]

\* one case of the switch of _processToolCalls: [e, r], r the value pushed
ProcessToolCall(e, call) ==
    CASE call.name = "patchState" ->
           ToolResult(e, WS_patchState(e.worldState, DirectorPartialState))
      [] call.name = "addPlot" ->
           ToolResult([e EXCEPT !.plotCtr = @ + 1],
                      WS_addPlot(e.worldState,
                                 Put(DirectorNewPlot, "created_at_turn", N(e.turnCounter)),
                                 PlotIds[e.plotCtr + 1], DirectorNow))
      [] call.name = "updatePlot" ->
           ToolResult(e, WS_updatePlot(e.worldState, call.plotId, DirectorPlotUpdates))
      [] call.name = "removePlot" ->
           ToolResult(e, WS_removePlot(e.worldState, call.plotId))
      [] OTHER -> [e |-> e, r |-> S("Success: note")]

RECURSIVE ProcessToolCallsFrom(_, _, _, _)
ProcessToolCallsFrom(e, toolCalls, i, deltas) ==
    IF i > Len(toolCalls) THEN [e |-> e, deltas |-> deltas]
    ELSE With(ProcessToolCall(e, toolCalls[i]), LAMBDA r :
           ProcessToolCallsFrom(r.e, toolCalls, i + 1, Append(deltas, r.r)))

\* GameEngine._processToolCalls: [e, deltas], deltas holding DeltaPairs,
\* nulls and result strings
_processToolCalls(e, toolCalls) == ProcessToolCallsFrom(e, toolCalls, 1, <<>>)

\* .filter((r) => typeof r !== "string")
NotStrings(results) == SelectSeq(results, LAMBDA r : r.t # "s")

PlayerTurn(text, directorThinking) ==
    O(<<KV("actor", S("player")), KV("text", S(text)),
        KV("directorThinking", S(directorThinking))>>)

PlayerInput == "go"
WriterText == "story"
Prologue == "prologue"
EditedText == "edited"

\* an async call in flight: its position and its local variables
Turn(op, pc, e) ==
    [op |-> op, pc |-> pc, isRetry |-> FALSE, isInstruction |-> FALSE,
     fromNodeId |-> e.selectedNodeId, playerParentId |-> "", playerInput |-> "",
     parentNodeId |-> "", gameDeltas |-> <<>>, pTreeDelta |-> Null,
     pGameDeltas |-> <<>>, gameSyncDelta |-> Null, memDelta |-> Null,
     oldGameDeltas |-> <<>>, openingText |-> Prologue, before |-> e]

Await(e, c) == [e |-> e, turn |-> c, out |-> "await"]
Threw(e, c) == [e |-> e, turn |-> c, out |-> "threw"]
Done(e, c) == [e |-> e, turn |-> c, out |-> "done"]

\* _generateWriterTurn up to its first await (buildWriterContext)
StartWriterTurn(e, c, parentNodeId) ==
    Await(e, [c EXCEPT !.pc = "writerContext", !.parentNodeId = parentNodeId,
                       !.gameDeltas = <<>>])

\* _generatePlayerTurn from the end of the director stream (or from its
\* start when the director is disabled) to its return, and on into the
\* writer turn of act / retry
PlayerTurnEnd(e, c) ==
    With(IF e.directorEnabled /\ ~c.isRetry
         THEN _applyGameDeltas(e, c.gameDeltas, "apply")
         ELSE [e |-> e, threw |-> FALSE], LAMBDA applied :
      IF applied.threw THEN Threw(applied.e, c)
      ELSE LET id == NodeName(applied.e.nodeCtr + 1)
               pNode == StoryNode(id, c.playerParentId, <<>>,
                                  PlayerTurn(c.playerInput, ""), c.gameDeltas)
           IN With(IF c.isRetry THEN [doc |-> applied.e.storyTree, delta |-> Null]
                   ELSE ST_addNode(applied.e.storyTree, pNode), LAMBDA added :
                StartWriterTurn(
                    [applied.e EXCEPT !.storyTree = added.doc, !.nodeCtr = @ + 1],
                    [c EXCEPT !.pTreeDelta = added.delta, !.pGameDeltas = c.gameDeltas],
                    IF c.op = "retry" THEN c.parentNodeId ELSE id)))

\* _generatePlayerTurn up to its first await (buildDirectorContext)
StartPlayerTurn(e, c) ==
    IF e.directorEnabled THEN Await(e, [c EXCEPT !.pc = "directorContext"])
    ELSE PlayerTurnEnd(e, c)

\* what act, continue and retry do once _generateWriterTurn has returned
FinishTurn(e, c, wNodeId, wTreeDelta, wGameDeltas) ==
    CASE c.op = "act" ->
           _pushToUndo([e EXCEPT !.selectedNodeId = S(wNodeId), !.turnCounter = @ + 1],
               EngineAction("act", c.fromNodeId, S(wNodeId),
                            _combineDeltas(<<c.pTreeDelta, wTreeDelta>>),
                            _combineDeltas(c.pGameDeltas \o wGameDeltas)))
      [] c.op = "continue" ->
           _pushToUndo([e EXCEPT !.selectedNodeId = S(wNodeId), !.turnCounter = @ + 1],
               EngineAction("continue", c.fromNodeId, S(wNodeId), wTreeDelta,
                            _combineDeltas(wGameDeltas)))
      [] OTHER ->
           _pushToUndo([e EXCEPT !.selectedNodeId = S(wNodeId)],
               EngineAction("retry", c.fromNodeId, S(wNodeId), wTreeDelta,
                            _combineDeltas(<<c.gameSyncDelta>> \o wGameDeltas)))

\* _generateWriterTurn from the filter of allGameDeltas to its return, and
\* the rest of the calling operation
WriterTurnEnd(e, c) ==
    LET allGameDeltas == SelectSeq(Append(c.gameDeltas, c.memDelta), LAMBDA d : d # Null)
    IN With(_applyGameDeltas(e, allGameDeltas, "apply"), LAMBDA applied :
         IF applied.threw THEN Threw(applied.e, c)
         ELSE LET id == NodeName(applied.e.nodeCtr + 1)
                  wNode == StoryNode(id, c.parentNodeId, <<>>,
                                     StoryTurn("storywriter", WriterText), allGameDeltas)
              IN With(ST_addNode(applied.e.storyTree, wNode), LAMBDA added :
                   Done(FinishTurn(
                          [applied.e EXCEPT !.storyTree = added.doc, !.nodeCtr = @ + 1],
                          c, id, added.delta, allGameDeltas), c)))

\* _runMemoryGeneration up to its await, or on to the end of the writer turn
StartMemoryGeneration(e, c) ==
    IF e.memoryGenerationInterval <= 0
       \/ e.turnCounter % e.memoryGenerationInterval # 0
    THEN WriterTurnEnd(e, c)
    ELSE Await(e, [c EXCEPT !.pc = "memory"])

\* _runWriterAssessment up to its await (buildDirectorPostWriterContext)
StartWriterAssessment(e, c) ==
    IF ~e.directorEnabled THEN StartMemoryGeneration(e, c)
    ELSE Await(e, [c EXCEPT !.pc = "assessContext", !.gameDeltas = <<>>])

\* edit from the second _applyGameDeltas (after an assessment) to its end
EditEnd(e, c, assessed) ==
    LET nodeId == c.parentNodeId
        oldGameDeltas == c.oldGameDeltas
        newGameDeltas == c.gameDeltas
        oldTurn == Child(getNode(c.before.storyTree, nodeId), "turn")
        newTurn == Put(oldTurn, "text", S(EditedText))
    IN With(IF assessed THEN _applyGameDeltas(e, newGameDeltas, "apply")
            ELSE [e |-> e, threw |-> FALSE], LAMBDA applied :
         IF applied.threw THEN Threw(applied.e, c)
         ELSE With(ST_updateNode(applied.e.storyTree, nodeId, newTurn, newGameDeltas),
                   LAMBDA updated :
                IF HasNullDelta(newGameDeltas) \/ HasNullDelta(oldGameDeltas)
                THEN Threw([applied.e EXCEPT !.storyTree = updated.doc], c)
                ELSE Done(_pushToUndo([applied.e EXCEPT !.storyTree = updated.doc],
                         EngineAction("edit", S(nodeId), S(nodeId), updated.delta,
                             DeltaPair(FlatOps(newGameDeltas, "apply", 1)
                                         \o FlatOps(oldGameDeltas, "revert", 1),
                                       FlatOps(oldGameDeltas, "apply", 1)
                                         \o FlatOps(newGameDeltas, "revert", 1)))), c)))

\* edit up to its first await, or to its end when there is none
EditCall(e) ==
    LET c0 == Turn("edit", "assessContext", e)
    IN IF ~e.isInitialized \/ e.selectedNodeId = Null THEN Threw(e, c0)
       ELSE IF ~HasNode(e.storyTree, e.selectedNodeId.v) THEN Threw(e, c0)
       ELSE LET nodeId == e.selectedNodeId.v
                node == getNode(e.storyTree, nodeId)
                oldGameDeltas == NodeDeltas(node)
                c == [c0 EXCEPT !.parentNodeId = nodeId, !.oldGameDeltas = oldGameDeltas,
                                !.gameDeltas = oldGameDeltas]
            IN IF Child(Child(node, "turn"), "actor") = S("storywriter") /\ e.directorEnabled
               THEN With(_applyGameDeltas(e, oldGameDeltas, "revert"), LAMBDA r :
                      IF r.threw THEN Threw(r.e, c)
                      ELSE Await(r.e, [c EXCEPT !.gameDeltas = <<>>]))
               ELSE EditEnd(e, c, FALSE)

\* newSession from the root node to its end
NewSessionEnd(e, c) ==
    LET id == NodeName(e.nodeCtr + 1)
        rootNode == StoryNode(id, "", <<>>, StoryTurn("storywriter", c.openingText),
                              c.gameDeltas)
    IN With(ST_addNode(e.storyTree, rootNode), LAMBDA added :
         Done(_pushToUndo([e EXCEPT !.storyTree = added.doc, !.nodeCtr = @ + 1,
                                    !.selectedNodeId = S(id), !.isInitialized = TRUE,
                                    !.turnCounter = 1],
                          EngineAction("init", Null, S(id), added.delta,
                                       _combineDeltas(c.gameDeltas))), c))

\* newSession from "if (this.config.directorEnabled)" to its next await
StartInitDirector(e, c) ==
    IF e.directorEnabled THEN Await(e, [c EXCEPT !.pc = "initDirector"])
    ELSE NewSessionEnd(e, c)

\* the resets of newSession
AfterClear(e) ==
    [e EXCEPT !.memories = A(<<>>),
              !.worldState = WSNew(O(<<>>), A(<<>>)),
              !.storyTree = EmptyTree,
              !.selectedNodeId = Null,
              !.turnCounter = 0,
              !.undoStack = <<>>,
              !.redoStack = <<>>]

\* newSession once memoryBank.clear() and plotCardManager.clear() answered
ClearDone(e, c) ==
    IF c.isInstruction THEN Await(AfterClear(e), [c EXCEPT !.pc = "openingStream"])
    ELSE StartInitDirector(AfterClear(e), c)

NewSessionCall(e, isInstruction) ==
    Await(e, [Turn("newSession", "clear", e) EXCEPT !.isInstruction = isInstruction])

ActCall(e) ==
    LET c0 == Turn("act", "directorContext", e)
    IN IF ~e.isInitialized \/ e.selectedNodeId = Null THEN Threw(e, c0)
       ELSE StartPlayerTurn(e, [c0 EXCEPT !.playerParentId = e.selectedNodeId.v,
                                          !.playerInput = PlayerInput])

ContinueCall(e) ==
    LET c0 == Turn("continue", "writerContext", e)
    IN IF ~e.isInitialized \/ e.selectedNodeId = Null THEN Threw(e, c0)
       ELSE StartWriterTurn(e, c0, e.selectedNodeId.v)

RetryCall(e) ==
    LET c0 == Turn("retry", "writerContext", e)
    IN IF ~e.isInitialized \/ e.selectedNodeId = Null THEN Threw(e, c0)
       ELSE IF ~HasNode(e.storyTree, e.selectedNodeId.v) THEN Threw(e, c0)
       ELSE LET node == getNode(e.storyTree, e.selectedNodeId.v)
            IN IF NodeParentId(node) = "" \/ ~HasNode(e.storyTree, NodeParentId(node))
               THEN Threw(e, c0)
               ELSE IF Child(Child(node, "turn"), "actor") = S("player") THEN Threw(e, c0)
               ELSE
                 With(getNode(e.storyTree, NodeParentId(node)), LAMBDA parentNode :
                 With(_syncGameState(e, e.selectedNodeId, S(NodeId(parentNode))),
                      LAMBDA sync :
                   LET c == [c0 EXCEPT !.gameSyncDelta = sync.delta,
                                       !.parentNodeId = NodeId(parentNode)]
                   IN IF sync.threw THEN Threw(sync.e, c)
                      ELSE IF Child(Child(parentNode, "turn"), "actor") = S("player")
                      THEN StartPlayerTurn(sync.e,
                              [c EXCEPT !.isRetry = TRUE,
                                        !.playerParentId = NodeParentId(parentNode),
                                        !.playerInput =
                                            Child(Child(parentNode, "turn"), "text").v])
                      ELSE StartWriterTurn(sync.e, c, NodeId(parentNode))))

\* a call that ran to its end, threw, or returned without doing anything
Returned(e) == [e |-> e, out |-> "done"]
Raised(e) == [e |-> e, out |-> "threw"]
Skipped(e) == [e |-> e, out |-> "skipped"]

\* an erase that leaves the selection on the node it deleted
erase_KeepsSelection(e) ==
    IF ~e.isInitialized \/ e.selectedNodeId = Null THEN Raised(e)
    ELSE IF ~HasNode(e.storyTree, e.selectedNodeId.v) THEN Raised(e)
    ELSE LET fromNodeId == e.selectedNodeId
             node == getNode(e.storyTree, fromNodeId.v)
             toNodeId == S(NodeParentId(node))
         IN IF NodeParentId(node) = "" THEN Raised(e)
            ELSE With(_syncGameState(e, fromNodeId, toNodeId), LAMBDA sync :
                   IF sync.threw THEN Raised(sync.e)
                   ELSE With(ST_deleteBranch(sync.e.storyTree, fromNodeId.v),
                             LAMBDA deleteResult :
                          IF deleteResult.delta = Null THEN Raised(sync.e)
                          ELSE Returned(_pushToUndo(
                                 [sync.e EXCEPT !.storyTree = deleteResult.doc,
                                                !.selectedNodeId = fromNodeId,
                                                !.turnCounter =
                                                    getDepth(deleteResult.doc, toNodeId.v)],
                                 EngineAction("erase", fromNodeId, toNodeId,
                                              deleteResult.delta, sync.delta)))))

\* GameEngine.erase
erase(e) ==
    IF ~e.isInitialized \/ e.selectedNodeId = Null THEN Raised(e)
    ELSE IF ~HasNode(e.storyTree, e.selectedNodeId.v) THEN Raised(e)
    ELSE LET fromNodeId == e.selectedNodeId
             node == getNode(e.storyTree, fromNodeId.v)
             toNodeId == S(NodeParentId(node))
         IN IF NodeParentId(node) = "" THEN Raised(e)
            ELSE With(_syncGameState(e, fromNodeId, toNodeId), LAMBDA sync :
                   IF sync.threw THEN Raised(sync.e)
                   ELSE With(ST_deleteBranch(sync.e.storyTree, fromNodeId.v),
                             LAMBDA deleteResult :
                          IF deleteResult.delta = Null THEN Raised(sync.e)
                          ELSE Returned(_pushToUndo(
                                 [sync.e EXCEPT !.storyTree = deleteResult.doc,
                                                !.selectedNodeId = toNodeId,
                                                !.turnCounter =
                                                    getDepth(deleteResult.doc, toNodeId.v)],
                                 EngineAction("erase", fromNodeId, toNodeId,
                                              deleteResult.delta, sync.delta)))))

\* GameEngine.select
select(e, nodeId) ==
    IF S(nodeId) = e.selectedNodeId THEN Skipped(e)
    ELSE IF ~HasNode(e.storyTree, nodeId) THEN Raised(e)
    ELSE With(_syncGameState(e, e.selectedNodeId, S(nodeId)), LAMBDA sync :
           IF sync.threw THEN Raised(sync.e)
           ELSE Returned(_pushToUndo(
                  [sync.e EXCEPT !.selectedNodeId = S(nodeId),
                                 !.turnCounter = getDepth(sync.e.storyTree, nodeId)],
                  EngineAction("select", e.selectedNodeId, S(nodeId), Null, sync.delta))))

\* siblings.indexOf(id), 0-based, -1 when absent
IndexOf(siblings, id) ==
    LET I == {i \in 1..Len(siblings) : siblings[i] = id}
    IN IF I = {} THEN -1 ELSE (CHOOSE i \in I : \A j \in I : i <= j) - 1

\* GameEngine.switch
switch(e, direction) ==
    IF e.selectedNodeId = Null THEN Skipped(e)
    ELSE IF ~HasNode(e.storyTree, e.selectedNodeId.v) THEN Skipped(e)
    ELSE With(getNode(e.storyTree, e.selectedNodeId.v), LAMBDA node :
           IF NodeParentId(node) = "" \/ ~HasNode(e.storyTree, NodeParentId(node))
           THEN Skipped(e)
           ELSE With(NodeChildrenIds(getNode(e.storyTree, NodeParentId(node))),
                     LAMBDA siblings :
                  LET currentIndex == IndexOf(siblings, e.selectedNodeId.v)
                      stepped == IF direction = "next" THEN currentIndex + 1
                                 ELSE currentIndex - 1
                      wrapped == IF stepped < 0 THEN Len(siblings) - 1 ELSE stepped
                      newIndex == IF wrapped >= Len(siblings) THEN 0 ELSE wrapped
                  IN IF Len(siblings) < 2 THEN Skipped(e)
                     ELSE select(e, siblings[newIndex + 1])))

\* this.storyTree.getDepth(this.selectedNodeId!) || 0
DepthOfSelected(tree, selectedNodeId) ==
    IF selectedNodeId = Null THEN 0 ELSE getDepth(tree, selectedNodeId.v)

\* GameEngine.undo
undo(e) ==
    IF Len(e.undoStack) = 0 THEN Skipped(e)
    ELSE LET action == e.undoStack[Len(e.undoStack)]
             e1 == [e EXCEPT !.undoStack = SubSeq(@, 1, Len(@) - 1)]
         IN With(IF action.game # Null
                 THEN _applyGameDeltas(e1, <<action.game>>, "revert")
                 ELSE [e |-> e1, threw |-> FALSE], LAMBDA r :
              IF r.threw THEN Raised(r.e)
              ELSE With(IF action.tree # Null
                        THEN ST_applyDelta(r.e.storyTree, DeltaRevert(action.tree))
                        ELSE r.e.storyTree, LAMBDA tree :
                     IF tree = Thrown THEN Raised(r.e)
                     ELSE Returned([r.e EXCEPT
                              !.storyTree = tree,
                              !.selectedNodeId = action.fromNodeId,
                              !.turnCounter = DepthOfSelected(tree, action.fromNodeId),
                              !.redoStack = Append(@, action)])))

\* GameEngine.redo
redo(e) ==
    IF Len(e.redoStack) = 0 THEN Skipped(e)
    ELSE LET action == e.redoStack[Len(e.redoStack)]
             e1 == [e EXCEPT !.redoStack = SubSeq(@, 1, Len(@) - 1)]
         IN With(IF action.tree # Null
                 THEN ST_applyDelta(e1.storyTree, DeltaApply(action.tree))
                 ELSE e1.storyTree, LAMBDA tree :
              IF tree = Thrown THEN Raised(e1)
              ELSE With(IF action.game # Null
                        THEN _applyGameDeltas([e1 EXCEPT !.storyTree = tree],
                                              <<action.game>>, "apply")
                        ELSE [e |-> [e1 EXCEPT !.storyTree = tree], threw |-> FALSE],
                        LAMBDA r :
                     IF r.threw THEN Raised(r.e)
                     ELSE Returned([r.e EXCEPT
                              !.selectedNodeId = action.toNodeId,
                              !.turnCounter = DepthOfSelected(tree, action.toNodeId),
                              !.undoStack = Append(@, action)])))

\* a build*Context call has answered: memoryBank.search touched the memories
\* it returned (the query returns every stored memory while there are few)
ContextBuilt(e, c) ==
    Await([e EXCEPT !.memories = MB_search(@, MemoryIds(@), e.turnCounter)],
          [c EXCEPT !.pc = CASE c.pc = "directorContext" -> "playerDirector"
                            [] c.pc = "writerContext" -> "writerStream"
                            [] OTHER -> "assessDirector"])

\* one chunk of a director stream carrying tool calls
DirectorChunk(e, c, toolCalls) ==
    With(_processToolCalls(e, toolCalls), LAMBDA r :
      Await(r.e, [c EXCEPT !.gameDeltas = @ \o NotStrings(r.deltas)]))

\* a director stream has ended
DirectorEnd(e, c) ==
    CASE c.pc = "initDirector" -> NewSessionEnd(e, c)
      [] c.pc = "playerDirector" -> PlayerTurnEnd(e, c)
      [] OTHER -> IF c.op = "edit" THEN EditEnd(e, c, TRUE)
                  ELSE StartMemoryGeneration(e, c)

\* a writer stream has ended
WriterDone(e, c) ==
    IF c.pc = "openingStream"
    THEN StartInitDirector(e, [c EXCEPT !.openingText = WriterText])
    ELSE StartWriterAssessment(e, c)

MemoryText == "summary"

\* memoryBank.generateAndAddMemory has answered
MemoryDone(e, c) ==
    With(MB_addMemory(e.memories, e.dbNextId, MemoryText, e.turnCounter), LAMBDA r :
      WriterTurnEnd([e EXCEPT !.memories = r.memories, !.dbNextId = @ + 1],
                    [c EXCEPT !.memDelta = r.delta]))

ContextPcs == {"directorContext", "writerContext", "assessContext"}
DirectorPcs == {"initDirector", "playerDirector", "assessDirector"}
WriterPcs == {"openingStream", "writerStream"}

\* the call r resumed at its await, its generation answering with no tool
\* call
QuietStep(r) ==
    CASE r.turn.pc = "clear" -> ClearDone(r.e, r.turn)
      [] r.turn.pc \in ContextPcs -> ContextBuilt(r.e, r.turn)
      [] r.turn.pc \in DirectorPcs -> DirectorEnd(r.e, r.turn)
      [] r.turn.pc \in WriterPcs -> WriterDone(r.e, r.turn)
      [] OTHER -> MemoryDone(r.e, r.turn)

RECURSIVE RunQuiet(_)
\* a call driven to its end with a director that makes no tool call
RunQuiet(r) ==
    IF r.out # "await" THEN r ELSE RunQuiet(QuietStep(r))

RECURSIVE RunQuietTo(_, _)
\* a call driven to its await at pc (or to its end) in the same way
RunQuietTo(r, pc) ==
    IF r.out # "await" \/ r.turn.pc = pc THEN r ELSE RunQuietTo(QuietStep(r), pc)

\* a call driven to its await at pc, where the director makes the tool
\* calls, and on to its end
RunWithToolCalls(r, pc, calls) ==
    With(RunQuietTo(r, pc), LAMBDA at :
      IF at.out # "await" THEN at
      ELSE RunQuiet(DirectorChunk(at.e, at.turn, calls)))

(***************************************************************************)
(* SpecEngine / SpecEngineConcurrent: a GameEngine that is fresh, holds a  *)
(* new session, or holds a session with two sibling branches, receives     *)
(* MaxEngineOps calls at most; the director makes MaxToolCalls tool calls  *)
(* at most (MaxConcurrentToolCalls when calls overlap); any generation may *)
(* fail at any await.                                                      *)
(***************************************************************************)
MaxEngineOps == 2
MaxToolCalls == 2
MaxConcurrentToolCalls == 1

DirectorSettings == BOOLEAN
MemoryIntervals == {0, 2}

FreshEngines ==
    {NewEngine(d, m) : d \in DirectorSettings, m \in MemoryIntervals}

\* the call of kind op on the engine e, up to its first await or its end
CallOf(e, op) ==
    CASE op = "newSession" -> NewSessionCall(e, FALSE)
      [] op = "continue" -> ContinueCall(e)
      [] OTHER -> RetryCall(e)

RECURSIVE AfterCalls(_, _)
\* the engine after the calls ops, each driven to its end before the next
AfterCalls(e, ops) ==
    IF ops = <<>> THEN e
    ELSE AfterCalls(RunQuiet(CallOf(e, Head(ops))).e, Tail(ops))

\* no call; newSession(prologue, false); newSession, continue, retry, which
\* leaves two writer nodes under the root
StartScripts == {<<>>, <<"newSession">>, <<"newSession", "continue", "retry">>}

\* a sequential caller starts with any of the three, a concurrent one with
\* the session that has the two branches and a director
StartEngines(caller) ==
    IF caller = "sequential"
    THEN {AfterCalls(e, ops) : e \in FreshEngines, ops \in StartScripts}
    ELSE {AfterCalls(NewEngine(TRUE, m), <<"newSession", "continue", "retry">>) :
              m \in MemoryIntervals}

TreeIds(tree) == {TNodes(tree).v[i].k : i \in 1..Len(TNodes(tree).v)}

\* what a client of the engine can observe
Observable(e) ==
    [storyTree |-> serialize(e.storyTree),
     worldState |-> JsonClone(e.worldState),
     memories |-> e.memories,
     selectedNodeId |-> e.selectedNodeId]

\* the world state of every node not seen before is the live one
RecordNodes(h, e) ==
    [id \in DOMAIN h \cup TreeIds(e.storyTree) |->
        IF id \in DOMAIN h THEN h[id] ELSE JsonClone(e.worldState)]

\* at is "call" when the record is made as the operation is called, "resume"
\* when it is made as a call in flight ends; inFlight tells whether a turn
\* was suspended at an await at that moment
LastCall(at, op, outcome, before, inFlight, changed, arg) ==
    [at |-> at, op |-> op, outcome |-> outcome, before |-> before,
     inFlight |-> inFlight, changed |-> changed, arg |-> arg]

TurnOps == {"act", "continue", "retry", "edit"}

TurnInFlight(ts) == \E i \in 1..Len(ts) : ts[i].op \in TurnOps

EngInit(caller) ==
    /\ WSIdle
    /\ TreeIdle
    /\ RestIdle
    /\ engine \in StartEngines(caller)
    /\ turns = <<>>
    /\ engLast = LastCall("none", "none", "none", Null, FALSE, FALSE, "")
    /\ engNodeWS = RecordNodes(<<>>, engine)
    /\ engBase = [observable |-> Observable(engine), depth |-> Len(engine.undoStack),
                  mode |-> "do"]
    /\ engOps = 0
    /\ engToolCalls = 0
    /\ engCaller = caller

EngFrame == UNCHANGED <<wsVars, treeVars, restVars, engCaller>>

CallAllowed ==
    /\ engOps < MaxEngineOps
    /\ engCaller = "concurrent" \/ turns = <<>>

\* the mode of engBase after a call of kind op ended with outcome out: "do"
\* while every call so far was an action that completed, "undo" while only
\* undos followed those, "undoFailed" once one of these undos threw, "void"
\* after anything else (a call that threw or failed, a redo, an action
\* after an undo)
NextMode(mode, op, out) ==
    CASE out = "skipped" -> mode
      [] mode \in {"void", "undoFailed"} -> mode
      [] op = "undo" -> IF out = "threw" THEN "undoFailed" ELSE "undo"
      [] out = "done" /\ op # "redo" /\ mode = "do" -> "do"
      [] OTHER -> "void"

\* the history variables after a step that left the engine as e; out is
\* "await" when the call of kind op is still in flight, nodeId is the node
\* an edit works on
History(op, out, e, base, nodeId) ==
    /\ engNodeWS' = LET h == RecordNodes(engNodeWS, e)
                    IN IF op = "edit" /\ out = "done" /\ nodeId \in DOMAIN h
                       THEN [h EXCEPT ![nodeId] = JsonClone(e.worldState)]
                       ELSE h
    /\ engBase' = IF out = "await" THEN base
                  ELSE [base EXCEPT !.mode = NextMode(base.mode, op, out)]

\* a call of an async operation: r is where it stands at its first await
\* or at its end
StartCall(op, r, arg) ==
    /\ engine' = r.e
    /\ turns' = IF r.out = "await" THEN Append(turns, r.turn) ELSE turns
    /\ engLast' = LastCall("call", op, IF r.out = "await" THEN "started" ELSE r.out,
                           engine, TurnInFlight(turns), r.e # engine, arg)
    /\ engOps' = engOps + 1
    /\ History(op, r.out, r.e, engBase, r.turn.parentNodeId)
    /\ UNCHANGED engToolCalls
    /\ EngFrame

\* a call of a synchronous operation
SyncCall(op, r, arg) ==
    /\ engine' = r.e
    /\ engLast' = LastCall("call", op, r.out, engine, TurnInFlight(turns),
                           r.e # engine, arg)
    /\ engOps' = engOps + 1
    /\ History(op, r.out, r.e, engBase, "")
    /\ UNCHANGED <<turns, engToolCalls>>
    /\ EngFrame

\* the i-th call in flight resumes and runs to r
Step(i, r, base) ==
    /\ engine' = r.e
    /\ turns' = IF r.out = "await" THEN [turns EXCEPT ![i] = r.turn]
                ELSE RemoveAt(turns, i)
    /\ engLast' = IF r.out = "await" THEN engLast
                  ELSE LastCall("resume", turns[i].op, r.out, turns[i].before,
                                TurnInFlight(RemoveAt(turns, i)),
                                r.e # turns[i].before, turns[i].pc)
    /\ History(turns[i].op, r.out, r.e, base, turns[i].parentNodeId)
    /\ UNCHANGED engOps
    /\ EngFrame

ENewSession ==
    /\ CallAllowed
    /\ \E isInstruction \in BOOLEAN :
         StartCall("newSession", NewSessionCall(engine, isInstruction), "")

EAct ==
    /\ CallAllowed
    /\ StartCall("act", ActCall(engine), "")

EContinue ==
    /\ CallAllowed
    /\ StartCall("continue", ContinueCall(engine), "")

ERetry ==
    /\ CallAllowed
    /\ StartCall("retry", RetryCall(engine), "")

EEdit ==
    /\ CallAllowed
    /\ StartCall("edit", EditCall(engine), "")

EErase ==
    /\ CallAllowed
    /\ SyncCall("erase", erase(engine), "")

ESelect ==
    /\ CallAllowed
    /\ \E k \in 1..engine.nodeCtr :
         SyncCall("select", select(engine, NodeName(k)), NodeName(k))

ESwitch ==
    /\ CallAllowed
    /\ \E direction \in {"next", "prev"} :
         SyncCall("switch", switch(engine, direction), direction)

EUndo ==
    /\ CallAllowed
    /\ SyncCall("undo", undo(engine), "")

ERedo ==
    /\ CallAllowed
    /\ SyncCall("redo", redo(engine), "")

EClearDone ==
    \E i \in 1..Len(turns) :
        /\ turns[i].pc = "clear"
        /\ Step(i, ClearDone(engine, turns[i]),
                [observable |-> Observable(AfterClear(engine)), depth |-> 0,
                 mode |-> "do"])
        /\ UNCHANGED engToolCalls

EContextBuilt ==
    \E i \in 1..Len(turns) :
        /\ turns[i].pc \in ContextPcs
        /\ Step(i, ContextBuilt(engine, turns[i]), engBase)
        /\ UNCHANGED engToolCalls

LivePlotIds(e) ==
    {Child(WSPlots(e.worldState).v[i], "id").v : i \in 1..Len(WSPlots(e.worldState).v)}

\* the tool calls the director may make on the live world state
ToolCallsFor(e) ==
    {ToolCall("patchState", ""), ToolCall("determineActionResult", "")}
    \cup (IF e.plotCtr < Len(PlotIds) THEN {ToolCall("addPlot", "")} ELSE {})
    \cup {ToolCall(name, id) : name \in {"updatePlot", "removePlot"},
                               id \in LivePlotIds(e) \cup {UnknownPlotId}}

EDirectorChunk ==
    \E i \in 1..Len(turns) :
        /\ turns[i].pc \in DirectorPcs
        /\ engToolCalls < (IF engCaller = "concurrent" THEN MaxConcurrentToolCalls
                           ELSE MaxToolCalls)
        /\ \E call \in ToolCallsFor(engine) :
             Step(i, DirectorChunk(engine, turns[i], <<call>>), engBase)
        /\ engToolCalls' = engToolCalls + 1

EDirectorEnd ==
    \E i \in 1..Len(turns) :
        /\ turns[i].pc \in DirectorPcs
        /\ Step(i, DirectorEnd(engine, turns[i]), engBase)
        /\ UNCHANGED engToolCalls

EWriterDone ==
    \E i \in 1..Len(turns) :
        /\ turns[i].pc \in WriterPcs
        /\ Step(i, WriterDone(engine, turns[i]), engBase)
        /\ UNCHANGED engToolCalls

EMemoryDone ==
    \E i \in 1..Len(turns) :
        /\ turns[i].pc = "memory"
        /\ Step(i, MemoryDone(engine, turns[i]), engBase)
        /\ UNCHANGED engToolCalls

\* the provider throws at the await the i-th call is suspended at
EGenerationFails ==
    \E i \in 1..Len(turns) :
        /\ turns[i].pc # "clear"
        /\ Step(i, [e |-> engine, turn |-> turns[i], out |-> "failed"], engBase)
        /\ UNCHANGED engToolCalls

EngNext ==
    \/ ENewSession
    \/ EAct
    \/ EContinue
    \/ ERetry
    \/ EEdit
    \/ EErase
    \/ ESelect
    \/ ESwitch
    \/ EUndo
    \/ ERedo
    \/ EClearDone
    \/ EContextBuilt
    \/ EDirectorChunk
    \/ EDirectorEnd
    \/ EWriterDone
    \/ EMemoryDone
    \/ EGenerationFails

SpecEngine == EngInit("sequential") /\ [][EngNext]_vars

SpecEngineConcurrent == EngInit("concurrent") /\ [][EngNext]_vars

RECURSIVE AfterActs(_, _)
\* the engine after one act per entry of scripts, the director making the
\* tool calls of the entry as it assesses the player's turn
AfterActs(e, scripts) ==
    IF scripts = <<>> THEN e
    ELSE AfterActs(RunWithToolCalls(ActCall(e), "playerDirector", Head(scripts)).e,
                   Tail(scripts))

\* the sessions in which the player has acted twice, the director adding a
\* plot on the first turn and updating it on the second: tree n1 -> n2 ->
\* n3 -> n4 -> n5 with the player nodes n2 and n4 (with a memory due on the
\* second turn its writer half throws, which leaves n4 a leaf and n3 selected)
PlayedEngines ==
    {AfterActs(AfterCalls(NewEngine(TRUE, m), <<"newSession">>),
               <<<<ToolCall("addPlot", "")>>, <<ToolCall("updatePlot", PlotIds[1])>>>>) :
       m \in MemoryIntervals}

PlayedInit ==
    /\ WSIdle
    /\ TreeIdle
    /\ RestIdle
    /\ engine \in PlayedEngines
    /\ turns = <<>>
    /\ engLast = LastCall("none", "none", "none", Null, FALSE, FALSE, "")
    /\ engNodeWS = RecordNodes(<<>>, engine)
    /\ engBase = [observable |-> Observable(engine), depth |-> Len(engine.undoStack),
                  mode |-> "do"]
    /\ engOps = 0
    /\ engToolCalls = 0
    /\ engCaller = "sequential"

SpecEnginePlayed == PlayedInit /\ [][EngNext]_vars

EngTypeOK == engOps <= MaxEngineOps /\ engToolCalls <= MaxToolCalls

\* C1: after a sequence of completed engine actions (newSession, act,
\* continue, erase, retry, edit, select, switch), one undo() per pushed action
\* succeeds and returns the engine to the observable state before the first
\* action: serialized story tree, world state, memory set and selected node.
C1_UndoAllRestores ==
    turns = <<>> =>
        /\ engBase.mode # "undoFailed"
        /\ (engBase.mode = "undo" /\ Len(engine.undoStack) = engBase.depth
              => Observable(engine) = engBase.observable)

\* C2: when a director or writer generation throws during act(), continue()
\* or retry(), the story tree holds no node that was not there before the
\* call and the world state, the memory bank, the undo stack and the redo
\* stack are as they were before the call.
C2_FailedTurnLeavesNoTrace ==
    (engLast.at = "resume" /\ engLast.outcome = "failed"
        /\ engLast.arg \in DirectorPcs \cup WriterPcs
        /\ engLast.op \in {"act", "continue", "retry"}) =>
        /\ TreeIds(engine.storyTree) \subseteq TreeIds(engLast.before.storyTree)
        /\ JsonClone(engine.worldState) = JsonClone(engLast.before.worldState)
        /\ MemoryIds(engine.memories) = MemoryIds(engLast.before.memories)
        /\ engine.undoStack = engLast.before.undoStack
        /\ engine.redoStack = engLast.before.redoStack

\* C3: a call of undo, redo, select, switch, erase or of a second turn made
\* while a turn (act, continue, retry, edit) is suspended at an await is
\* rejected: it throws or returns at once, and the engine is unchanged.
C3_CallsRejectedWhileTurnInFlight ==
    (engLast.at = "call" /\ engLast.inFlight
        /\ engLast.op \in TurnOps \cup {"undo", "redo", "select", "switch", "erase"}) =>
        /\ engLast.outcome \in {"threw", "skipped"}
        /\ ~engLast.changed

\* C10: select(target) of a node of the tree other than the selected one
\* does not fail and leaves the live world state equal to the world state
\* that belongs to target (the one that was live when target was added).
C10_SelectReachesTargetState ==
    (engLast.at = "call" /\ engLast.op = "select" /\ engLast.outcome # "skipped"
        /\ HasNode(engLast.before.storyTree, engLast.arg)) =>
        /\ engLast.outcome = "done"
        /\ JsonClone(engine.worldState) = engNodeWS[engLast.arg]

\* the engine after an undo() called on e, and how the call ended
AfterUndo(e) == undo(e)

\* C11: a select(target) that completes pushes exactly one action, and the
\* undo() that follows it completes and restores the node that was selected
\* before the select and the world state that was live before the select.
C11_SelectIsUndoable ==
    (engLast.at = "call" /\ engLast.op = "select" /\ engLast.outcome = "done") =>
        /\ Len(engine.undoStack) = Len(engLast.before.undoStack) + 1
        /\ With(AfterUndo(engine), LAMBDA r :
             /\ r.out = "done"
             /\ r.e.selectedNodeId = engLast.before.selectedNodeId
             /\ JsonClone(r.e.worldState) = JsonClone(engLast.before.worldState))

\* the ids of nodeId and of its descendants
BranchIds(tree, nodeId) ==
    {id \in TreeIds(tree) :
        \E i \in 1..getDepth(tree, id) : NodeId(getPathToNode(tree, id)[i]) = nodeId}

\* both trees hold the same nodes under the same ids, up to JSON equality
SameNodes(a, b) ==
    /\ TreeIds(a) = TreeIds(b)
    /\ \A id \in TreeIds(a) : SameJson(getNode(a, id), getNode(b, id))

\* the selected node of e is a node of the tree other than the root
NonRootSelected(e) ==
    /\ e.selectedNodeId # Null
    /\ HasNode(e.storyTree, e.selectedNodeId.v)
    /\ NodeParentId(getNode(e.storyTree, e.selectedNodeId.v)) # ""

\* what erase() must have done to the engine before, which had the erased node selected
ErasedFrom(before, after) ==
    With(before.selectedNodeId.v, LAMBDA erased :
      With(NodeParentId(getNode(before.storyTree, erased)), LAMBDA parent :
        /\ after.selectedNodeId = S(parent)
        /\ TreeIds(after.storyTree)
             = TreeIds(before.storyTree) \ BranchIds(before.storyTree, erased)
        /\ JsonClone(after.worldState) = engNodeWS[parent]))

\* C12: erase() with a non-root node N selected completes, selects N's
\* parent, removes N and its descendants and leaves the world state that
\* belongs to the parent; the undo() that follows completes and restores the
\* selection of N, every removed node and the world state there was at N.
C12_EraseAndUndo ==
    (engLast.at = "call" /\ engLast.op = "erase" /\ engLast.before.isInitialized
        /\ NonRootSelected(engLast.before)) =>
        /\ engLast.outcome = "done"
        /\ ErasedFrom(engLast.before, engine)
        /\ With(AfterUndo(engine), LAMBDA r :
             /\ r.out = "done"
             /\ r.e.selectedNodeId = engLast.before.selectedNodeId
             /\ SameNodes(r.e.storyTree, engLast.before.storyTree)
             /\ JsonClone(r.e.worldState) = JsonClone(engLast.before.worldState))

\* the operations that push an action when they complete
PushingOps == {"newSession", "act", "continue", "erase", "retry", "edit", "select", "switch"}

\* C13: when an operation other than undo and redo has completed (newSession,
\* act, continue, erase, retry, edit, a select or switch that moves), the
\* redo stack is empty.
C13_ActionClearsRedo ==
    (engLast.outcome = "done" /\ engLast.op \in PushingOps) => engine.redoStack = <<>>

\* an operation has completed on an engine whose redo stack was not empty
C13_Witness ==
    /\ engLast.outcome = "done"
    /\ engLast.op \in PushingOps \ {"newSession"}
    /\ engLast.before.redoStack # <<>>
    /\ engine.redoStack = <<>>

(***************************************************************************)
(* SpecMB: a MemoryBank over the "vectors" object store of its             *)
(* LocalVectorDB (memory_bank.ts, vectordb/index.ts).  The store is a      *)
(* function from record ids to the stored meta; a request to the store or  *)
(* to the embedding provider may fail, and then changes nothing.           *)
(***************************************************************************)
\* the ids of s in ascending order (an object store is read in key order)
RECURSIVE SortedIds(_)
SortedIds(s) ==
    IF s = {} THEN <<>>
    ELSE With(CHOOSE x \in s : \A y \in s : x <= y, LAMBDA least :
           <<least>> \o SortedIds(s \ {least}))

\* new LocalVectorDB(...) opened on the persisted records
VectorStore(records, nextKey) == [records |-> records, nextKey |-> nextKey]

\* the meta addMemory and applyDelta store for a memory
MemoryMeta(memory) ==
    O(<<KV("text", Child(memory, "text")),
        KV("created_at_turn", Child(memory, "created_at_turn")),
        KV("last_accessed_at_turn", Child(memory, "last_accessed_at_turn"))>>)

\* LocalVectorDB.insert (store.put) of the stored value meta: id = Null lets
\* the key generator of the store choose the key; [db, id]
DB_insert(db, id, meta) ==
    With(IF id = Null THEN db.nextKey + 1 ELSE id.v, LAMBDA key :
      [db |-> [db EXCEPT !.records = [x \in DOMAIN db.records \cup {key} |->
                                         IF x = key THEN meta ELSE db.records[x]],
                         !.nextKey = IF key > db.nextKey THEN key ELSE db.nextKey],
       id |-> key])

\* LocalVectorDB.delete (store.delete)
DB_delete(db, id) ==
    [db EXCEPT !.records = [x \in DOMAIN db.records \ {id} |-> db.records[x]]]

\* LocalVectorDB.clear (store.clear): the key generator is not reset
DB_clear(db) == [db EXCEPT !.records = <<>>]

\* MemoryBank.hydrateInMemoryCache on what db.export() returns
MB_hydrate(db) ==
    With(SortedIds(DOMAIN db.records), LAMBDA ids :
      A([i \in 1..Len(ids) |->
           O(<<KV("id", N(ids[i])),
               KV("text", Child(db.records[ids[i]], "text")),
               KV("created_at_turn", Child(db.records[ids[i]], "created_at_turn")),
               KV("last_accessed_at_turn",
                  Child(db.records[ids[i]], "last_accessed_at_turn"))>>)]))

\* new MemoryBank(...): open says that init() has loaded the list
NewBank(db) == [memories |-> A(<<>>), db |-> db, open |-> FALSE]

\* the outcome of a MemoryBank call: the bank afterwards, what it returned
\* (a DeltaPair, Null or Thrown) and whether a request failed
MBResult(b, returned, failed) == [bank |-> b, returned |-> returned, failed |-> failed]

\* MemoryBank.init
MB_init(b, fails) ==
    IF fails THEN MBResult(b, Thrown, TRUE)
    ELSE MBResult([b EXCEPT !.memories = MB_hydrate(b.db), !.open = TRUE], Null, FALSE)

\* MemoryBank.addMemory: fails when the embedding or the insert fails
MB_addMemoryCall(b, text, currentTurn, fails) ==
    IF fails THEN MBResult(b, Thrown, TRUE)
    ELSE With(DB_insert(b.db, Null, MemoryMeta(Memory(0, text, currentTurn))),
              LAMBDA ins :
           With(MB_addMemory(b.memories, ins.id, text, currentTurn), LAMBDA r :
             MBResult([b EXCEPT !.memories = r.memories, !.db = ins.db], r.delta, FALSE)))

\* draft.memories.filter((m) => m.id !== id)
MemoriesWithout(memories, id) ==
    A(SelectSeq(memories.v, LAMBDA m : Child(m, "id") # N(id)))

\* a removeMemory that filters the list before the delete has answered
MB_removeMemory_MirrorFirst(b, id, fails) ==
    IF id \notin MemoryIds(b.memories) THEN MBResult(b, Null, FALSE)
    ELSE IF fails
         THEN MBResult([b EXCEPT !.memories = MemoriesWithout(b.memories, id)], Null, TRUE)
    ELSE With(MB_createDeltaPair(b.memories, MemoriesWithout(b.memories, id)),
              LAMBDA r :
           MBResult([b EXCEPT !.memories = r.memories, !.db = DB_delete(b.db, id)],
                    r.delta, FALSE))

\* MemoryBank.removeMemory
MB_removeMemory(b, id, fails) ==
    IF id \notin MemoryIds(b.memories) THEN MBResult(b, Null, FALSE)
    ELSE IF fails THEN MBResult(b, Null, TRUE)
    ELSE With(MB_createDeltaPair(b.memories, MemoriesWithout(b.memories, id)),
              LAMBDA r :
           MBResult([b EXCEPT !.memories = r.memories, !.db = DB_delete(b.db, id)],
                    r.delta, FALSE))

\* MemoryBank.clear
MB_clear(b, fails) ==
    IF fails THEN MBResult(b, Thrown, TRUE)
    ELSE MBResult([b EXCEPT !.memories = A(<<>>), !.db = DB_clear(b.db)], Null, FALSE)

\* removedIds of applyDelta: the ids of the old list missing from the target
RemovedIds(oldMemories, targetMemories) ==
    MemoryIds(oldMemories) \ MemoryIds(targetMemories)

\* addedMemories of applyDelta: the target memories whose id the old list lacks
AddedMemories(oldMemories, targetMemories) ==
    SelectSeq(targetMemories.v, LAMBDA m : Child(m, "id").v \notin MemoryIds(oldMemories))

RECURSIVE DeleteAll(_, _)
\* the removalPromises that were fulfilled
DeleteAll(db, ids) ==
    IF ids = {} THEN db
    ELSE With(CHOOSE x \in ids : TRUE, LAMBDA id :
           DeleteAll(DB_delete(db, id), ids \ {id}))

RECURSIVE InsertAll(_, _, _, _)
\* the additionPromises that were fulfilled: db.insert({id: memToAdd.id, ...})
InsertAll(db, added, failing, i) ==
    IF i > Len(added) THEN db
    ELSE IF Child(added[i], "id").v \in failing
         THEN InsertAll(db, added, failing, i + 1)
         ELSE InsertAll(DB_insert(db, Child(added[i], "id"), MemoryMeta(added[i])).db,
                        added, failing, i + 1)

\* the ids applyDelta sends a request for
PlannedIds(memories, ops) ==
    With(MB_applyDelta(memories, ops), LAMBDA target :
      IF target = Thrown THEN {}
      ELSE RemovedIds(memories, target)
             \cup (MemoryIds(target) \ MemoryIds(memories)))

\* MemoryBank.applyDelta: failing is the set of ids whose request is rejected;
\* the other requests of Promise.all are carried out all the same
MB_applyDeltaCall(b, ops, failing) ==
    With(MB_applyDelta(b.memories, ops), LAMBDA target :
      IF target = Thrown THEN MBResult(b, Thrown, FALSE)
      ELSE With(InsertAll(DeleteAll(b.db, RemovedIds(b.memories, target) \ failing),
                          AddedMemories(b.memories, target), failing, 1),
                LAMBDA db :
             IF failing # {}
             THEN MBResult([b EXCEPT !.db = db], Thrown, TRUE)
             ELSE MBResult([b EXCEPT !.db = db, !.memories = target], Null, FALSE)))

\* MemoryBank.search as far as it changes the bank: hitIds are the ids of
\* the results of db.query(queryVector, {k: limit * 2})
MB_searchCall(b, hitIds, currentTurn, fails) ==
    IF fails THEN MBResult(b, Thrown, TRUE)
    ELSE MBResult([b EXCEPT !.memories = MB_search(b.memories, hitIds, currentTurn)],
                  Null, FALSE)

\* what db.query can return for k: the ids of k records of the store, or of
\* all of them when the store holds fewer
QueryHits(db, k) ==
    {h \in SUBSET DOMAIN db.records :
        Cardinality(h) = (IF Cardinality(DOMAIN db.records) < k
                          THEN Cardinality(DOMAIN db.records) ELSE k)}

\* bounds of SpecMB
MaxMBOps == 3
MaxTurn == 2
\* the turn at which the memories are added (runMemoryBankDemo)
FirstTurn == 1
MaxLimit == 1

\* the records an earlier session left in the store
PersistedStore ==
    VectorStore([id \in {1, 2} |-> MemoryMeta(Memory(id, MemoryText, FirstTurn))], 2)

\* a bank opened on an empty store to which two memories were added
BankWithTwoAdded ==
    With(MB_addMemoryCall(MB_init(NewBank(VectorStore(<<>>, 0)), FALSE).bank,
                          MemoryText, FirstTurn, FALSE), LAMBDA first :
      With(MB_addMemoryCall(first.bank, MemoryText, FirstTurn, FALSE), LAMBDA second :
        [bank |-> second.bank, log |-> <<first.returned, second.returned>>]))

\* the banks a client can hold, with the DeltaPairs it was handed
StartBanks ==
    {[bank |-> NewBank(VectorStore(<<>>, 0)), log |-> <<>>],
     [bank |-> NewBank(PersistedStore), log |-> <<>>],
     BankWithTwoAdded}

MBInit ==
    /\ WSIdle
    /\ TreeIdle
    /\ EngIdle
    /\ VDBIdle
    /\ PCMIdle
    /\ OpenIdle
    /\ WasmIdle
    /\ \E s \in StartBanks :
          /\ bank = s.bank
          /\ mbLog = s.log
    /\ mbLast = Null
    /\ mbOps = 0
    /\ mbPending = <<>>

MBFrame == UNCHANGED <<wsVars, treeVars, engVars, vdbVars, pcmVars, openVars, wasmVars>>

\* a request to the store or to the provider can be rejected (every method
\* of LocalVectorDB opens the store itself, so also before init())
Fails(b) == BOOLEAN

IsDeltaPair(x) == x # Null /\ x # Thrown

\* the Operation[] a client passes to applyDelta: one side of a DeltaPair it
\* was handed, or of the DeltaPairs combined as _combineDeltas does
DeltaInputs(log) ==
    {DeltaApply(log[i]) : i \in 1..Len(log)}
        \cup {DeltaRevert(log[i]) : i \in 1..Len(log)}
        \cup (IF Len(log) < 2 THEN {}
              ELSE {DeltaApply(_combineDeltas(log)), DeltaRevert(_combineDeltas(log))})

MBCall(op, r, arg, hits, turn) ==
    /\ mbOps < MaxMBOps
    /\ bank' = r.bank
    /\ mbLog' = IF IsDeltaPair(r.returned) THEN Append(mbLog, r.returned) ELSE mbLog
    /\ mbLast' = [op |-> op, returned |-> r.returned, failed |-> r.failed,
                  before |-> bank, arg |-> arg, hits |-> hits, turn |-> turn]
    /\ mbOps' = mbOps + 1
    /\ mbPending' = mbPending
    /\ MBFrame

MBInitCall ==
    /\ bank # Null
    /\ \E fails \in BOOLEAN : MBCall("init", MB_init(bank, fails), Null, {}, 0)

MBAddMemory ==
    /\ bank # Null
    /\ \E fails \in Fails(bank) :
          MBCall("addMemory", MB_addMemoryCall(bank, MemoryText, FirstTurn, fails),
                 Null, {}, FirstTurn)

MBRemoveMemory ==
    /\ bank # Null
    /\ \E fails \in Fails(bank), id \in 1..(bank.db.nextKey + 1) :
          MBCall("removeMemory", MB_removeMemory(bank, id, fails), id, {}, 0)

MBApplyDelta ==
    /\ bank # Null
    /\ \E ops \in DeltaInputs(mbLog) :
         \E failing \in SUBSET PlannedIds(bank.memories, ops) :
            MBCall("applyDelta", MB_applyDeltaCall(bank, ops, failing), ops, failing, 0)

MBClear ==
    /\ bank # Null
    /\ \E fails \in Fails(bank) : MBCall("clear", MB_clear(bank, fails), Null, {}, 0)

MBSearch ==
    /\ bank # Null
    /\ \E fails \in Fails(bank), currentTurn \in 1..MaxTurn, limit \in 1..MaxLimit :
         \E hitIds \in QueryHits(bank.db, limit * 2) :
            MBCall("search", MB_searchCall(bank, hitIds, currentTurn, fails),
                   limit, hitIds, currentTurn)

MBNext ==
    \/ MBInitCall
    \/ MBAddMemory
    \/ MBRemoveMemory
    \/ MBApplyDelta
    \/ MBClear
    \/ MBSearch

SpecMB == MBInit /\ [][MBNext]_vars

\* applyDelta up to its await: the target list is computed from the list as
\* it is now and the requests for the removed and added memories are issued
MB_applyDeltaStart(b, ops) ==
    With(MB_applyDelta(b.memories, ops), LAMBDA target :
      IF target = Thrown THEN Thrown
      ELSE [ops |-> ops, target |-> target,
            removedIds |-> RemovedIds(b.memories, target),
            addedMemories |-> AddedMemories(b.memories, target)])

\* applyDelta after Promise.all: the requests have been carried out and
\* this.memories = targetMemories
MB_applyDeltaResolve(b, call) ==
    [b EXCEPT !.db = InsertAll(DeleteAll(b.db, call.removedIds), call.addedMemories, {}, 1),
              !.memories = call.target]

\* the applyDelta calls that can be in flight at once
MaxOverlap == 2

WithoutIndex(s, i) == SubSeq(s, 1, i - 1) \o SubSeq(s, i + 1, Len(s))

\* a client calls applyDelta without awaiting the calls made before, as
\* GameEngine._applyGameDeltas does; mbLast collects the calls made since
\* no call was in flight
MBApplyDeltaStart ==
    /\ bank # Null
    /\ mbOps < MaxMBOps
    /\ Len(mbPending) < MaxOverlap
    /\ \E ops \in DeltaInputs(mbLog) :
         With(MB_applyDeltaStart(bank, ops), LAMBDA call :
           /\ mbPending' = IF call = Thrown THEN mbPending ELSE Append(mbPending, call)
           /\ mbLast' = IF mbPending = <<>>
                        THEN [op |-> "applyDeltas", returned |-> Null, failed |-> FALSE,
                              before |-> bank, arg |-> <<ops>>, hits |-> {}, turn |-> 0]
                        ELSE [mbLast EXCEPT !.arg = Append(@, ops)])
    /\ mbOps' = mbOps + 1
    /\ UNCHANGED <<bank, mbLog>>
    /\ MBFrame

\* the requests of one of the calls in flight have answered
MBApplyDeltaResolve ==
    /\ \E i \in 1..Len(mbPending) :
          /\ bank' = MB_applyDeltaResolve(bank, mbPending[i])
          /\ mbPending' = WithoutIndex(mbPending, i)
    /\ UNCHANGED <<mbLog, mbLast, mbOps>>
    /\ MBFrame

MBOverlapNext ==
    \/ mbPending = <<>> /\ MBNext
    \/ MBApplyDeltaStart
    \/ MBApplyDeltaResolve

SpecMBOverlap == MBInit /\ [][MBOverlapNext]_vars

\* the ids of the records of the store of b
StoreIds(b) == DOMAIN b.db.records

\* the last call did what it was called for
MBSucceeded ==
    /\ mbLast # Null
    /\ ~mbLast.failed
    /\ mbLast.returned # Thrown
    /\ mbLast.op = "removeMemory" => IsDeltaPair(mbLast.returned)

\* C14: after every successfully completed operation of a MemoryBank on
\* which init() has completed
\* (init, addMemory, removeMemory, applyDelta, clear), the set of memory ids
\* of the in-memory list equals the set of record ids of the vector store
C14_MirrorIdsEqualStoreIds ==
    (MBSucceeded /\ bank.open
        /\ mbLast.op \in {"init", "addMemory", "removeMemory", "applyDelta", "clear"}) =>
        MemoryIds(bank.memories) = StoreIds(bank)

\* C15: if the delete of the record fails during removeMemory(id), the call
\* returns null and the memories list is what it was before the call; the
\* list changes only when the record has left the store
C15_FailedDeleteKeepsMirror ==
    (mbLast # Null /\ mbLast.op = "removeMemory") =>
        /\ mbLast.failed =>
              /\ mbLast.returned = Null
              /\ bank.memories = mbLast.before.memories
        /\ bank.memories # mbLast.before.memories => mbLast.arg \notin StoreIds(bank)

C15_Witness ==
    /\ mbLast # Null
    /\ mbLast.op = "removeMemory"
    /\ mbLast.failed
    /\ bank.open
    /\ mbLast.arg \in MemoryIds(mbLast.before.memories)
    /\ mbLast.arg \in StoreIds(bank)
    /\ mbLast.returned = Null
    /\ bank.memories = mbLast.before.memories

\* no two memories of the list have the same id
UniqueIds(memories) ==
    \A i, j \in 1..Len(memories.v) :
        Child(memories.v[i], "id") = Child(memories.v[j], "id") => i = j

\* every memory of the list whose id is among the hits was accessed at turn
HitsAccessed(memories, hitIds, turn) ==
    \A i \in 1..Len(memories.v) :
        Child(memories.v[i], "id").v \in hitIds =>
            Child(memories.v[i], "last_accessed_at_turn") = N(turn)

SearchReturned == mbLast # Null /\ mbLast.op = "search" /\ mbLast.returned # Thrown

Unit == 5

\* Math.sqrt
Isqrt(n) == CHOOSE r \in 0..n : r * r <= n /\ n < (r + 1) * (r + 1)

RECURSIVE SumOver(_, _)
\* the sum of f[i] over the indices from i on
SumOver(f, i) == IF i > Len(f) THEN 0 ELSE f[i] + SumOver(f, i + 1)

\* Math.hypot(...Array.from(floatArr))
Hypot(v) == Isqrt(SumOver([i \in 1..Len(v) |-> v[i] * v[i]], 1))

\* the normalisation of normalizeAndSerialize / serializeVector and of query
NormalizeVector(v) ==
    With(Hypot(v), LAMBDA norm :
      IF norm > 0 THEN [i \in 1..Len(v) |-> (v[i] * Unit) \div norm] ELSE v)

dot(a, b) == SumOver([i \in 1..Len(a) |-> a[i] * b[i]], 1)

euclidean(a, b) == Isqrt(SumOver([i \in 1..Len(a) |-> (a[i] - b[i]) * (a[i] - b[i])], 1))

RECURSIVE Pow2(_)
Pow2(n) == IF n = 0 THEN 1 ELSE 2 * Pow2(n - 1)

\* packBits of a boolean[] / number[]: a Uint8Array of ceil(bitCount / 8)
\* bytes, bit i of the input being bit i % 8 of byte floor(i / 8)
packBits(input) ==
    [byteIdx \in 1..((Len(input) + 7) \div 8) |->
        SumOver([bitIdx \in 1..8 |->
                   IF 8 * (byteIdx - 1) + bitIdx <= Len(input)
                      /\ input[8 * (byteIdx - 1) + bitIdx] # 0
                   THEN Pow2(bitIdx - 1) ELSE 0], 1)]

\* POPCOUNT_TABLE[a ^ b]: the number of bits in which two bytes differ
PopcountXor(a, b) ==
    SumOver([i \in 1..8 |->
               IF ((a \div Pow2(i - 1)) % 2) # ((b \div Pow2(i - 1)) % 2) THEN 1 ELSE 0], 1)

\* hammingDistancePacked: over the common bytes POPCOUNT_TABLE[a[i] ^ b[i]],
\* over the other bytes of the longer array POPCOUNT_TABLE[longer[i]]
hammingDistancePacked(a, b) ==
    SumOver([i \in 1..(IF Len(a) > Len(b) THEN Len(a) ELSE Len(b)) |->
               PopcountXor(IF i <= Len(a) THEN a[i] ELSE 0,
                           IF i <= Len(b) THEN b[i] ELSE 0)], 1)

RECURSIVE bubbleUp(_, _)
\* MinHeap.bubbleUp with comparator (a, b) => a.score - b.score; items[1] is
\* the root, the parent of items[idx] is items[idx \div 2]
bubbleUp(items, idx) ==
    IF idx > 1 /\ items[idx].score - items[idx \div 2].score < 0
    THEN bubbleUp([items EXCEPT ![idx] = items[idx \div 2], ![idx \div 2] = items[idx]],
                  idx \div 2)
    ELSE items

\* the index bubbleDown swaps items[idx] with (idx itself when it stops)
SmallestOf(items, idx) ==
    With(IF 2 * idx <= Len(items) /\ items[2 * idx].score - items[idx].score < 0
         THEN 2 * idx ELSE idx, LAMBDA smallest :
      IF 2 * idx + 1 <= Len(items)
           /\ items[2 * idx + 1].score - items[smallest].score < 0
      THEN 2 * idx + 1 ELSE smallest)

RECURSIVE bubbleDown(_, _)
\* MinHeap.bubbleDown
bubbleDown(items, idx) ==
    With(SmallestOf(items, idx), LAMBDA smallest :
      IF smallest # idx
      THEN bubbleDown([items EXCEPT ![idx] = items[smallest], ![smallest] = items[idx]],
                      smallest)
      ELSE items)

\* MinHeap.push
HeapPush(items, item) == bubbleUp(Append(items, item), Len(items) + 1)

\* MinHeap.pop: the items left (the popped one is items[1])
HeapPop(items) ==
    IF Len(items) <= 1 THEN <<>>
    ELSE bubbleDown([SubSeq(items, 1, Len(items) - 1) EXCEPT ![1] = items[Len(items)]], 1)

RECURSIVE HeapDrain(_)
\* while (heap.size() > 0) items.push(heap.pop())
HeapDrain(items) ==
    IF items = <<>> THEN <<>> ELSE <<items[1]>> \o HeapDrain(HeapPop(items))

\* the options of a query: binary says queryBinary; filter "" is no filter,
\* otherwise (meta) => meta.category === filter; maxCandidates 0 is none
QueryOpts(vector, k, distance, filter, maxCandidates, binary) ==
    [vector |-> vector, k |-> k, distance |-> distance, filter |-> filter,
     maxCandidates |-> maxCandidates, binary |-> binary]

\* the query vector as the scan uses it
QueryVector(normalize, q) ==
    IF q.binary THEN packBits(q.vector)
    ELSE IF normalize /\ q.distance = "cosine" THEN NormalizeVector(q.vector)
    ELSE q.vector

\* the candidates the scan passes over (continue)
ScanSkips(rec, q) ==
    \/ (rec.format = "binary") # q.binary
    \/ q.filter # "" /\ rec.meta # q.filter

\* the score of a candidate, higher is better
ScoreOf(rec, qvec, q) ==
    IF q.binary THEN 0 - hammingDistancePacked(qvec, rec.vector)
    ELSE IF q.distance = "cosine" THEN dot(qvec, rec.vector)
    ELSE 0 - euclidean(qvec, rec.vector)

RECURSIVE ScanFrom(_, _, _, _, _, _)
\* the loop over the cache, or the cursor's onsuccess events: [ok, heap];
\* ok = FALSE when heap.peek() is undefined (k = 0) and .score throws
ScanFrom(recs, i, heap, examined, qvec, q) ==
    IF i > Len(recs) THEN [ok |-> TRUE, heap |-> heap]
    ELSE IF ScanSkips(recs[i], q) THEN ScanFrom(recs, i + 1, heap, examined, qvec, q)
    ELSE IF ~(Len(heap) < q.k) /\ heap = <<>> THEN [ok |-> FALSE, heap |-> heap]
    ELSE With([id |-> recs[i].id, meta |-> recs[i].meta,
               score |-> ScoreOf(recs[i], qvec, q)], LAMBDA item :
           With(IF Len(heap) < q.k THEN HeapPush(heap, item)
                ELSE IF item.score > heap[1].score THEN HeapPush(HeapPop(heap), item)
                ELSE heap, LAMBDA h :
             IF q.maxCandidates # 0 /\ examined + 1 >= q.maxCandidates
             THEN [ok |-> TRUE, heap |-> h]
             ELSE ScanFrom(recs, i + 1, h, examined + 1, qvec, q)))

\* items.reverse(): the results, or Null when the scan threw
ScanResults(recs, normalize, q) ==
    With(ScanFrom(recs, 1, <<>>, 0, QueryVector(normalize, q), q), LAMBDA r :
      IF r.ok THEN [ok |-> TRUE, out |-> Reverse(HeapDrain(r.heap))]
      ELSE [ok |-> FALSE, out |-> <<>>])

\* new LocalVectorDB({format, normalize}) opened on the persisted records;
\* hasCache says inMemoryCache is not null
NewVectorDB(format, records, nextKey) ==
    [records |-> records, nextKey |-> nextKey, format |-> format,
     normalize |-> format # "binary", cacheEnabled |-> FALSE, hasCache |-> FALSE,
     inMemoryCache |-> <<>>]

\* normalizeAndSerialize / serializeVector: what insert stores for a record
Serialized(db, vector, meta) ==
    IF db.format = "binary"
    THEN [vector |-> packBits(vector), format |-> "binary", meta |-> meta]
    ELSE [vector |-> IF db.normalize THEN NormalizeVector(vector) ELSE vector,
          format |-> "dense", meta |-> meta]

\* LocalVectorDB.insert
VDB_insert(db, record) ==
    DB_insert(db, record.id, Serialized(db, record.vector, record.meta)).db

RECURSIVE VDB_insertBatch(_, _, _)
\* LocalVectorDB.insertBatch: the puts of one transaction
VDB_insertBatch(db, records, i) ==
    IF i > Len(records) THEN db
    ELSE VDB_insertBatch(VDB_insert(db, records[i]), records, i + 1)

RECURSIVE VDB_import(_, _, _)
\* LocalVectorDB.import: for (const v of payload.vectors) vs.put({ ...v,
\* vector: new Float32Array(v.vector).buffer }); the vector is stored as given
VDB_import(db, vectors, i) ==
    IF i > Len(vectors) THEN db
    ELSE VDB_import(
             DB_insert(db, N(vectors[i].id),
                       [vector |-> vectors[i].vector, format |-> vectors[i].format,
                        meta |-> vectors[i].meta]).db,
             vectors, i + 1)

\* what a cursor over the "vectors" store passes, in key order
StoreScan(db) ==
    With(SortedIds(DOMAIN db.records), LAMBDA ids :
      [i \in 1..Len(ids) |->
         [id |-> ids[i], vector |-> db.records[ids[i]].vector,
          format |-> db.records[ids[i]].format, meta |-> db.records[ids[i]].meta]])

\* LocalVectorDB.enableCache up to its await: a cursor is opened and
\* inMemoryCache is a new empty array, unless the cache is enabled already
VDB_enableCache(db) ==
    IF db.cacheEnabled THEN db
    ELSE [db EXCEPT !.hasCache = TRUE, !.inMemoryCache = <<>>]

\* the events of one enableCache cursor and tx.oncomplete: every record is
\* pushed onto this.inMemoryCache as it is then (the push throws when
\* disableCache has set it to null), then cacheEnabled = true
VDB_cacheLoaded(db) ==
    [db EXCEPT !.inMemoryCache = IF db.hasCache THEN @ \o StoreScan(db) ELSE @,
               !.cacheEnabled = TRUE]

\* LocalVectorDB.disableCache
VDB_disableCache(db) ==
    [db EXCEPT !.inMemoryCache = <<>>, !.hasCache = FALSE, !.cacheEnabled = FALSE]

\* the path query and queryBinary take
QueryPath(db) == IF db.cacheEnabled /\ db.hasCache THEN "cache" ELSE "cursor"

\* out.push({id, score, meta}) of query, out.push({id, distance: -score, meta})
\* of queryBinary
QueryOut(items, q) ==
    [i \in 1..Len(items) |->
       [id |-> items[i].id, meta |-> items[i].meta,
        score |-> IF q.binary THEN 0 - items[i].score ELSE items[i].score]]

\* LocalVectorDB.query / queryBinary: [outcome, out]; on the cache path a
\* throw rejects the call, in a cursor event it leaves the promise pending
VDB_query(db, q) ==
    With(ScanResults(IF QueryPath(db) = "cache" THEN db.inMemoryCache ELSE StoreScan(db),
                     db.normalize, q), LAMBDA r :
      IF r.ok THEN [outcome |-> "returned", out |-> QueryOut(r.out, q)]
      ELSE [outcome |-> IF QueryPath(db) = "cache" THEN "thrown" ELSE "pending",
            out |-> <<>>])

\* bounds of SpecVDB
MaxVDBOps == 3
MaxK == 2
MaxCandidates == 1

\* the handles a client can hold: a dense and a binary store, empty or with
\* the records of an earlier session
StartVectorDBs ==
    {NewVectorDB("dense", <<>>, 0),
     VDB_insertBatch(NewVectorDB("dense", <<>>, 0),
                     <<[id |-> Null, vector |-> <<3, 4>>, meta |-> "a"],
                       [id |-> Null, vector |-> <<-3, 4>>, meta |-> "b"]>>, 1),
     VDB_insertBatch(NewVectorDB("binary", <<>>, 0),
                     <<[id |-> Null, vector |-> <<1, 0, 1>>, meta |-> "a"],
                       [id |-> Null, vector |-> <<1, 1, 1>>, meta |-> "b"]>>, 1)}

\* the records a client inserts into a store of the format
InsertRecords(format) ==
    IF format = "binary"
    THEN {[id |-> Null, vector |-> <<0, 0, 1>>, meta |-> "a"],
          [id |-> N(1), vector |-> <<0, 1, 0>>, meta |-> "b"]}
    ELSE {[id |-> Null, vector |-> <<6, 8>>, meta |-> "a"],
          [id |-> Null, vector |-> <<0, 0>>, meta |-> "b"],
          [id |-> N(1), vector |-> <<3, -4>>, meta |-> "b"]}

\* the query vectors of the format
QueryVectors(binary) ==
    IF binary THEN {<<1, 0, 1>>, <<0, 1, 0>>} ELSE {<<3, 4>>, <<-6, 8>>}

VDBInit ==
    /\ WSIdle
    /\ TreeIdle
    /\ EngIdle
    /\ MBIdle
    /\ PCMIdle
    /\ OpenIdle
    /\ WasmIdle
    /\ vdb \in StartVectorDBs
    /\ vdbLoads = 0
    /\ vdbLast = Null
    /\ vdbOps = 0

VDBFrame == UNCHANGED <<wsVars, treeVars, engVars, mbVars, pcmVars, openVars, wasmVars>>

VDBCall(op, db, q, r) ==
    /\ vdbOps < MaxVDBOps
    /\ vdb' = db
    /\ vdbLast' = [op |-> op, q |-> q, path |-> QueryPath(vdb), outcome |-> r.outcome,
                   out |-> r.out, before |-> vdb]
    /\ vdbOps' = vdbOps + 1
    /\ VDBFrame

\* a call that resolved with no value
Resolved == [outcome |-> "done", out |-> <<>>]

VInsert ==
    /\ vdb # Null
    /\ \E record \in InsertRecords(vdb.format) :
          VDBCall("insert", VDB_insert(vdb, record), Null, Resolved)
    /\ UNCHANGED vdbLoads

VInsertBatch ==
    /\ vdb # Null
    /\ \E first \in InsertRecords(vdb.format), second \in InsertRecords(vdb.format) :
          /\ first.id = Null
          /\ second.id # Null
          /\ VDBCall("insertBatch", VDB_insertBatch(vdb, <<first, second>>, 1), Null, Resolved)
    /\ UNCHANGED vdbLoads

\* the payloads a client imports: the export of a store of the same format,
\* and for a dense store the export of a store that does not normalize
ImportPayloads(format) ==
    IF format = "binary"
    THEN {<<[id |-> 1, vector |-> packBits(<<0, 1, 1>>), format |-> "binary", meta |-> "a"]>>}
    ELSE {<<[id |-> 1, vector |-> <<4, 3>>, format |-> "dense", meta |-> "a"]>>,
          <<[id |-> 2, vector |-> <<6, 8>>, format |-> "dense", meta |-> "b"]>>}

VImport ==
    /\ vdb # Null
    /\ \E vectors \in ImportPayloads(vdb.format), clearBefore \in BOOLEAN :
          VDBCall("import",
                  VDB_import(IF clearBefore THEN DB_clear(vdb) ELSE vdb, vectors, 1),
                  Null, Resolved)
    /\ UNCHANGED vdbLoads

VDelete ==
    /\ vdb # Null
    /\ \E id \in 1..(vdb.nextKey + 1) : VDBCall("delete", DB_delete(vdb, id), Null, Resolved)
    /\ UNCHANGED vdbLoads

VClear ==
    /\ vdb # Null
    /\ VDBCall("clear", DB_clear(vdb), Null, Resolved)
    /\ UNCHANGED vdbLoads

VEnableCache ==
    /\ vdb # Null
    /\ VDBCall("enableCache", VDB_enableCache(vdb), Null, Resolved)
    /\ vdbLoads' = IF vdb.cacheEnabled THEN vdbLoads ELSE vdbLoads + 1

\* the cursor of an enableCache call runs to its end
VCacheLoaded ==
    /\ vdb # Null
    /\ vdbLoads > 0
    /\ vdb' = VDB_cacheLoaded(vdb)
    /\ vdbLoads' = vdbLoads - 1
    /\ UNCHANGED <<vdbLast, vdbOps>>
    /\ VDBFrame

VDisableCache ==
    /\ vdb # Null
    /\ VDBCall("disableCache", VDB_disableCache(vdb), Null, Resolved)
    /\ UNCHANGED vdbLoads

VQuery ==
    /\ vdb # Null
    /\ vdb.format = "dense"
    /\ \E vector \in QueryVectors(FALSE), k \in 0..MaxK, distance \in {"cosine", "euclidean"},
          filter \in {"", "a"}, maxCandidates \in 0..MaxCandidates :
          With(QueryOpts(vector, k, distance, filter, maxCandidates, FALSE), LAMBDA q :
            VDBCall("query", vdb, q, VDB_query(vdb, q)))
    /\ UNCHANGED vdbLoads

VQueryBinary ==
    /\ vdb # Null
    /\ \E vector \in QueryVectors(TRUE), k \in 0..MaxK, filter \in {"", "a"},
          maxCandidates \in 0..MaxCandidates :
          With(QueryOpts(vector, k, "hamming", filter, maxCandidates, TRUE), LAMBDA q :
            VDBCall("queryBinary", vdb, q, VDB_query(vdb, q)))
    /\ UNCHANGED vdbLoads

VDBNext ==
    \/ VInsert
    \/ VInsertBatch
    \/ VImport
    \/ VDelete
    \/ VClear
    \/ VEnableCache
    \/ VCacheLoaded
    \/ VDisableCache
    \/ VQuery
    \/ VQueryBinary

SpecVDB == VDBInit /\ [][VDBNext]_vars

QueryReturned ==
    /\ vdbLast # Null
    /\ vdbLast.op \in {"query", "queryBinary"}
    /\ vdbLast.outcome = "returned"

\* score descending for query; queryBinary returns distances, ascending
BestFirst(out, binary) ==
    \A i \in 1..(Len(out) - 1) :
        IF binary THEN out[i].score <= out[i + 1].score
        ELSE out[i].score >= out[i + 1].score

NoIdTwice(out) == \A i, j \in 1..Len(out) : out[i].id = out[j].id => i = j

\* C18: query(q, {k}) and queryBinary(q, {k}) return at most k results,
\* ordered best first (score descending, distance ascending for binary), and
\* no id appears twice in the result, on the cache path and the cursor path
C18_TopKOrderedNoDuplicates ==
    QueryReturned =>
        /\ Len(vdbLast.out) <= vdbLast.q.k
        /\ BestFirst(vdbLast.out, vdbLast.q.binary)
        /\ NoIdTwice(vdbLast.out)

\* the ids of the records of the store a query of q can return
Candidates(db, q) == {id \in DOMAIN db.records : ~ScanSkips(db.records[id], q)}

\* the score (the distance for queryBinary) a result shows for the record id
\* as the store holds it
ShownScore(db, id, q) ==
    With(ScoreOf(db.records[id], QueryVector(db.normalize, q), q), LAMBDA score :
      IF q.binary THEN 0 - score ELSE score)

\* out is an answer to q over the records the store holds: every result is a
\* record of the store with its meta and its score, and when the scan is not
\* cut short by maxCandidates the results are k of the candidates (all of
\* them when there are fewer) and none of the others is better than a result
ReflectsStore(out, db, q) ==
    /\ \A i \in 1..Len(out) :
          /\ out[i].id \in Candidates(db, q)
          /\ out[i].meta = db.records[out[i].id].meta
          /\ out[i].score = ShownScore(db, out[i].id, q)
    /\ q.maxCandidates = 0 =>
          /\ Cardinality({out[i].id : i \in 1..Len(out)})
                = (IF Cardinality(Candidates(db, q)) < q.k
                   THEN Cardinality(Candidates(db, q)) ELSE q.k)
          /\ \A id \in Candidates(db, q) \ {out[i].id : i \in 1..Len(out)} :
                \A i \in 1..Len(out) :
                    IF q.binary THEN ShownScore(db, id, q) >= out[i].score
                    ELSE ShownScore(db, id, q) <= out[i].score

\* C19: a query reflects every insert, insertBatch, delete and clear that
\* resolved before it was invoked, with the cache disabled and with the cache
\* enabled: its results are an answer over the records the store holds
C19_QueryReflectsWrites ==
    QueryReturned => ReflectsStore(vdbLast.out, vdbLast.before, vdbLast.q)

(***************************************************************************)
(* PlotCardManager over its LocalVectorDB.  A string is the sequence of    *)
(* its characters.                                                         *)
(***************************************************************************)
\* the upper-case letters of the strings used, with their lower case
UpperLower == <<<<"R", "r">>, <<"I", "i">>, <<"E", "e">>, <<"L", "l">>>>

\* String.prototype.toLowerCase, one character
LowerChar(c) ==
    IF \E i \in 1..Len(UpperLower) : UpperLower[i][1] = c
    THEN UpperLower[CHOOSE i \in 1..Len(UpperLower) : UpperLower[i][1] = c][2]
    ELSE c

toLowerCase(s) == [i \in 1..Len(s) |-> LowerChar(s[i])]

\* String.prototype.includes
Includes(s, sub) ==
    \E i \in 0..(Len(s) - Len(sub)) : SubSeq(s, i + 1, i + Len(sub)) = sub

\* a test of the keyword that keeps the case of both strings
IsTriggered_CaseSensitive(card, query) ==
    /\ card.triggerKeyword # <<>>
    /\ Includes(query, card.triggerKeyword)

\* card.triggerKeyword && lowerCaseQuery.includes(card.triggerKeyword.toLowerCase())
IsTriggered(card, query) ==
    /\ card.triggerKeyword # <<>>
    /\ Includes(toLowerCase(query), toLowerCase(card.triggerKeyword))

\* the meta addPlotCard stores
CardMeta(card) ==
    [category |-> card.category, name |-> card.name, content |-> card.content,
     triggerKeyword |-> card.triggerKeyword]

\* a PlotCard of the list
PlotCard(id, meta) ==
    [id |-> id, category |-> meta.category, name |-> meta.name,
     content |-> meta.content, triggerKeyword |-> meta.triggerKeyword]

\* new PlotCardManager(...)
NewPlotCardManager(db) == [plotCards |-> <<>>, db |-> db]

\* PlotCardManager.init / hydrateInMemoryCache
PCM_init(m) ==
    With(StoreScan(m.db), LAMBDA recs :
      [m EXCEPT !.plotCards = [i \in 1..Len(recs) |-> PlotCard(recs[i].id, recs[i].meta)]])

\* PlotCardManager.addPlotCard: vector is the embedding of cardData.content
PCM_addPlotCard(m, cardData, vector) ==
    With(DB_insert(m.db, Null, Serialized(m.db, vector, CardMeta(cardData))), LAMBDA ins :
      [plotCards |-> Append(m.plotCards, PlotCard(ins.id, CardMeta(cardData))),
       db |-> ins.db])

\* PlotCardManager.editPlotCard(id, {triggerKeyword}): the content is the
\* same, so the stored vector is put again with the new meta
PCM_editPlotCard(m, id, triggerKeyword, fails) ==
    IF ~(\E i \in 1..Len(m.plotCards) : m.plotCards[i].id = id) THEN m
    ELSE IF id \notin DOMAIN m.db.records \/ fails THEN m
    ELSE With(CHOOSE i \in 1..Len(m.plotCards) :
                  /\ m.plotCards[i].id = id
                  /\ \A j \in 1..(i - 1) : m.plotCards[j].id # id, LAMBDA cardIndex :
           With([CardMeta(m.plotCards[cardIndex]) EXCEPT !.triggerKeyword = triggerKeyword],
                LAMBDA updatedMeta :
             [plotCards |-> [m.plotCards EXCEPT ![cardIndex] = PlotCard(id, updatedMeta)],
              db |-> DB_insert(m.db, N(id),
                               Serialized(m.db, m.db.records[id].vector, updatedMeta)).db]))

\* PlotCardManager.removePlotCard: the card leaves the list before the delete
\* is awaited
PCM_removePlotCard(m, id, fails) ==
    IF \E i \in 1..Len(m.plotCards) : m.plotCards[i].id = id
    THEN [plotCards |-> SelectSeq(m.plotCards, LAMBDA c : c.id # id),
          db |-> IF fails THEN m.db ELSE DB_delete(m.db, id)]
    ELSE m

\* PlotCardManager.clear
PCM_clear(m) == [plotCards |-> <<>>, db |-> DB_clear(m.db)]

\* the score of a keyword-triggered card: 2.0
TriggeredScore == 2 * Unit * Unit

RECURSIVE MapSetTriggered(_, _, _)
\* triggeredCards.forEach((card) => finalResultsMap.set(card.id, ...)): a key
\* the Map holds keeps its place
MapSetTriggered(entries, cards, i) ==
    IF i > Len(cards) THEN entries
    ELSE With([id |-> cards[i].id, card |-> cards[i], score |-> TriggeredScore],
              LAMBDA entry :
           MapSetTriggered(
               IF \E j \in 1..Len(entries) : entries[j].id = entry.id
               THEN [j \in 1..Len(entries) |->
                       IF entries[j].id = entry.id THEN entry ELSE entries[j]]
               ELSE Append(entries, entry),
               cards, i + 1))

RECURSIVE MapSetResults(_, _, _)
\* vectorResults.forEach: a result whose id the Map lacks is added
MapSetResults(entries, results, i) ==
    IF i > Len(results) THEN entries
    ELSE MapSetResults(
             IF \E j \in 1..Len(entries) : entries[j].id = results[i].id THEN entries
             ELSE Append(entries, [id |-> results[i].id,
                                   card |-> PlotCard(results[i].id, results[i].meta),
                                   score |-> results[i].score]),
             results, i + 1)

RECURSIVE SortByScore(_)
\* Array.prototype.sort((a, b) => b.score - a.score), which is stable
SortByScore(entries) ==
    IF Len(entries) <= 1 THEN entries
    ELSE With(SortByScore(SubSeq(entries, 1, Len(entries) - 1)), LAMBDA sorted :
           With(Cardinality({j \in 1..Len(sorted) :
                               sorted[j].score >= entries[Len(entries)].score}),
                LAMBDA p :
             SubSeq(sorted, 1, p) \o <<entries[Len(entries)]>>
                 \o SubSeq(sorted, p + 1, Len(sorted))))

\* sortedResults.slice(0, limit).map((item) => item.card)
SliceCards(entries, limit) ==
    [i \in 1..(IF Len(entries) < limit THEN Len(entries) ELSE limit) |-> entries[i].card]

\* PlotCardManager.search: vector is the embedding of the query
PCM_search(m, query, vector, limit) ==
    With(SelectSeq(m.plotCards, LAMBDA card : IsTriggered(card, query)),
         LAMBDA triggeredCards :
      With(VDB_query(m.db, QueryOpts(vector, limit + Len(triggeredCards), "cosine",
                                     "", 0, FALSE)), LAMBDA r :
        IF r.outcome # "returned" THEN [outcome |-> r.outcome, result |-> <<>>]
        ELSE [outcome |-> "returned",
              result |-> SliceCards(SortByScore(MapSetResults(
                             MapSetTriggered(<<>>, triggeredCards, 1), r.out, 1)),
                             limit)]))

\* bounds of SpecPCM
MaxPCMOps == 3
MaxSearchLimit == 2

\* the cards a client adds: two with a keyword, one with none
CardInputs ==
    {[category |-> "Item", name |-> "Ring", content |-> "artifact",
      triggerKeyword |-> <<"R", "i">>],
     [category |-> "Character", name |-> "Elf", content |-> "archer",
      triggerKeyword |-> <<"e", "l">>],
     [category |-> "Location", name |-> "Inn", content |-> "tavern",
      triggerKeyword |-> <<>>]}

\* what the embedding provider answers
Embeddings == {<<3, 4>>, <<-6, 8>>}

\* the queries of a search
SearchQueries == {<<"r", "I", "E", "L">>, <<"x", "R", "i">>, <<"x">>}

CardNamed(name) == CHOOSE c \in CardInputs : c.name = name

\* the "vectors" store an earlier session left: the Ring, the Inn and the Elf
PersistedCards ==
    VDB_insertBatch(NewVectorDB("dense", <<>>, 0),
                    <<[id |-> Null, vector |-> <<-3, 4>>, meta |-> CardMeta(CardNamed("Ring"))],
                      [id |-> Null, vector |-> <<3, 4>>, meta |-> CardMeta(CardNamed("Inn"))],
                      [id |-> Null, vector |-> <<3, -4>>, meta |-> CardMeta(CardNamed("Elf"))]>>,
                    1)

PCMInit ==
    /\ WSIdle
    /\ TreeIdle
    /\ EngIdle
    /\ MBIdle
    /\ VDBIdle
    /\ OpenIdle
    /\ WasmIdle
    /\ pcm \in {NewPlotCardManager(NewVectorDB("dense", <<>>, 0)),
                NewPlotCardManager(PersistedCards),
                PCM_init(NewPlotCardManager(PersistedCards))}
    /\ pcmLast = Null
    /\ pcmOps = 0
    /\ pcmEdits = <<>>

PCMFrame == UNCHANGED <<wsVars, treeVars, engVars, mbVars, vdbVars, openVars, wasmVars>>

PCMCall(op, m, query, vector, limit, r) ==
    /\ pcmOps < MaxPCMOps
    /\ pcm' = m
    /\ pcmLast' = [op |-> op, query |-> query, vector |-> vector, limit |-> limit,
                   outcome |-> r.outcome,
                   result |-> r.result, before |-> pcm]
    /\ pcmOps' = pcmOps + 1
    /\ pcmEdits' = pcmEdits
    /\ PCMFrame

\* a PlotCardManager call that resolved; search is the only one whose result
\* is kept
CardsDone == [outcome |-> "done", result |-> <<>>]

PInit ==
    /\ pcm # Null
    /\ PCMCall("init", PCM_init(pcm), <<>>, <<>>, 0, CardsDone)

PAddPlotCard ==
    /\ pcm # Null
    /\ \E cardData \in CardInputs, vector \in Embeddings :
          PCMCall("addPlotCard", PCM_addPlotCard(pcm, cardData, vector), <<>>, <<>>, 0, CardsDone)

PEditPlotCard ==
    /\ pcm # Null
    /\ \E id \in 1..(pcm.db.nextKey + 1), cardData \in CardInputs, fails \in BOOLEAN :
          PCMCall("editPlotCard",
                  PCM_editPlotCard(pcm, id, cardData.triggerKeyword, fails), <<>>, <<>>,
                  0, CardsDone)

PRemovePlotCard ==
    /\ pcm # Null
    /\ \E id \in 1..(pcm.db.nextKey + 1), fails \in BOOLEAN :
          PCMCall("removePlotCard", PCM_removePlotCard(pcm, id, fails), <<>>, <<>>, 0, CardsDone)

PClear ==
    /\ pcm # Null
    /\ PCMCall("clear", PCM_clear(pcm), <<>>, <<>>, 0, CardsDone)

PSearch ==
    /\ pcm # Null
    /\ \E query \in SearchQueries, vector \in Embeddings, limit \in 0..MaxSearchLimit :
          PCMCall("search", pcm, query, vector, limit,
                  PCM_search(pcm, query, vector, limit))

PCMNext ==
    \/ PInit
    \/ PAddPlotCard
    \/ PEditPlotCard
    \/ PRemovePlotCard
    \/ PClear
    \/ PSearch

SpecPCM == PCMInit /\ [][PCMNext]_vars

\* editPlotCard up to its first await: cardIndex and updatedMeta are taken
\* from the list as it is when the call is made; Null when no card has the id
PCM_editPlotCardStart(m, id, triggerKeyword) ==
    IF ~(\E i \in 1..Len(m.plotCards) : m.plotCards[i].id = id) THEN Null
    ELSE With(CHOOSE i \in 1..Len(m.plotCards) :
                  /\ m.plotCards[i].id = id
                  /\ \A j \in 1..(i - 1) : m.plotCards[j].id # id, LAMBDA cardIndex :
           [id |-> id, cardIndex |-> cardIndex,
            updatedMeta |-> [CardMeta(m.plotCards[cardIndex])
                               EXCEPT !.triggerKeyword = triggerKeyword],
            pc |-> "get", vector |-> <<>>, cards |-> m.plotCards])

\* this.plotCards[cardIndex] = card: an index past the end leaves empty
\* slots (Null) between the old end and the card
AssignAt(cards, cardIndex, card) ==
    IF cardIndex <= Len(cards) THEN [cards EXCEPT ![cardIndex] = card]
    ELSE cards \o [i \in 1..(cardIndex - Len(cards)) |->
                     IF i = cardIndex - Len(cards) THEN card ELSE Null]

\* editPlotCard after await this.db.insert: the record is put and the card
\* is written at cardIndex
PCM_editPlotCardResume(m, edit) ==
    [plotCards |-> AssignAt(m.plotCards, edit.cardIndex, PlotCard(edit.id, edit.updatedMeta)),
     db |-> DB_insert(m.db, N(edit.id), Serialized(m.db, edit.vector, edit.updatedMeta)).db]

\* the editPlotCard calls that can be suspended at once
MaxSuspended == 1

\* the list has no empty slot
NoHoles(cards) == \A i \in 1..Len(cards) : cards[i] # Null

\* editPlotCard is called and runs up to await this.db.get(id)
PEditStart ==
    /\ pcm # Null
    /\ NoHoles(pcm.plotCards)
    /\ pcmOps < MaxPCMOps
    /\ Len(pcmEdits) < MaxSuspended
    /\ \E id \in 1..(pcm.db.nextKey + 1), cardData \in CardInputs :
         With(PCM_editPlotCardStart(pcm, id, cardData.triggerKeyword), LAMBDA edit :
           pcmEdits' = IF edit = Null THEN pcmEdits ELSE Append(pcmEdits, edit))
    /\ pcmOps' = pcmOps + 1
    /\ UNCHANGED <<pcm, pcmLast>>
    /\ PCMFrame

\* db.get(id) has answered: the edit goes on to the insert with the stored
\* vector, or returns null when the record is gone
PEditGot ==
    /\ pcmEdits # <<>>
    /\ pcmEdits[1].pc = "get"
    /\ pcmEdits' = IF pcmEdits[1].id \in DOMAIN pcm.db.records
                   THEN <<[pcmEdits[1] EXCEPT !.pc = "insert",
                                              !.vector = pcm.db.records[pcmEdits[1].id].vector]>>
                   ELSE <<>>
    /\ UNCHANGED <<pcm, pcmLast, pcmOps>>
    /\ PCMFrame

\* db.insert has answered and the edit runs to its end
PEditResume ==
    /\ pcmEdits # <<>>
    /\ pcmEdits[1].pc = "insert"
    /\ pcm' = PCM_editPlotCardResume(pcm, pcmEdits[1])
    /\ pcmEdits' = <<>>
    /\ UNCHANGED <<pcmLast, pcmOps>>
    /\ PCMFrame

PCMSuspendedNext ==
    \/ NoHoles(pcm.plotCards) /\ PCMNext
    \/ PEditStart
    \/ PEditGot
    \/ PEditResume

SpecPCMSuspended == PCMInit /\ [][PCMSuspendedNext]_vars

SearchDone == pcmLast # Null /\ pcmLast.op = "search" /\ pcmLast.outcome = "returned"

\* the ids of the cards of the list that count as triggered by the query
CardIds(cards, Counts(_, _), query) ==
    {cards[i].id : i \in {j \in 1..Len(cards) : Counts(cards[j], query)}}

\* the result ranks every triggered card above every other card, and holds
\* all the triggered cards when they are at most limit
TriggeredFirst(result, triggered, limit) ==
    /\ \A i, j \in 1..Len(result) :
          (result[i].id \notin triggered /\ result[j].id \in triggered) => j < i
    /\ Cardinality(triggered) <= limit =>
          triggered \subseteq {result[i].id : i \in 1..Len(result)}

\* the claim's test of a card: its triggerKeyword is a case-insensitive
\* substring of the query
KeywordInQuery(card, query) ==
    Includes(toLowerCase(query), toLowerCase(card.triggerKeyword))

\* the same for a card that has a keyword
NonEmptyKeywordInQuery(card, query) ==
    card.triggerKeyword # <<>> /\ KeywordInQuery(card, query)

\* C17 as stated: search(query, limit) ranks every card whose triggerKeyword
\* is a case-insensitive substring of query above every non-triggered card,
\* and returns all of them when they are at most limit
C17_TriggeredCardsFirst ==
    SearchDone =>
        TriggeredFirst(pcmLast.result,
                       CardIds(pcm.plotCards, KeywordInQuery, pcmLast.query),
                       pcmLast.limit)

\* C17 amended: search(query, limit) ranks every card of the list whose
\* non-empty triggerKeyword is a case-insensitive substring of query above
\* every other card of the result, and returns all of them when they are at
\* most limit; a card without keyword is never triggered
C17_KeywordCardsFirst ==
    SearchDone =>
        TriggeredFirst(pcmLast.result,
                       CardIds(pcm.plotCards, NonEmptyKeywordInQuery, pcmLast.query),
                       pcmLast.limit)

C17_Witness ==
    /\ SearchDone
    /\ Len(pcmLast.result) = 2
    /\ pcmLast.limit = 2
    /\ Cardinality(CardIds(pcm.plotCards, NonEmptyKeywordInQuery, pcmLast.query)) = 1
    /\ Cardinality(DOMAIN pcm.db.records) = 3
    /\ pcmLast.result[1].id \in CardIds(pcm.plotCards, NonEmptyKeywordInQuery, pcmLast.query)
    /\ pcmLast.result[1].id # 1
    /\ pcmLast.result[2].id
          \notin CardIds(pcm.plotCards, NonEmptyKeywordInQuery, pcmLast.query)

\* ---------------------------------------------------------------------------
\* LocalVectorDB.openDB: the upgrade of a persisted database and its migrations
\* ---------------------------------------------------------------------------

\* the highest version a handle declares in the model
MaxVersion == 3

\* a migration function either returns at once (a synchronous function, or a
\* promise that resolves without waiting for an event) or places a request
\* on the upgrade transaction and waits for it
MigrationKinds == {"atOnce", "awaitsRequest"}

\* the persisted database: fresh, it has version 0 and no _meta entry
FreshDatabase ==
    [version |-> 0, hasLog |-> FALSE, log |-> <<>>, hasSchema |-> FALSE,
     schemaVersion |-> 0, dimension |-> 0, createdAt |-> 0, updatedAt |-> 0]

\* the values of options.dimension of the handles of the model
Dimensions == {2, 3}

\* the latest value of Date.now() at which an open starts in the model
MaxClock == 3

\* const now = Date.now(): later than the last write of the schema entry
DateNow(db) == db.updatedAt + 1

\* const newSchema = { version, dimension: this.options.dimension, ...,
\* createdAt: current ? current.createdAt : now, updatedAt: now };
\* metaStore.put({ key: "schema", value: newSchema })
PutNewSchema(db, version, dimension, now) ==
    [db EXCEPT !.hasSchema = TRUE,
               !.schemaVersion = version,
               !.dimension = dimension,
               !.createdAt = IF db.hasSchema THEN db.createdAt ELSE now,
               !.updatedAt = now]

\* const key = `${fromVersion}->${toVersion}`; this.migrations.set(key, fn);
\* the registry is keyed by fromVersion, toVersion being fromVersion + 1
registerMigration(registry, fromVersion, toVersion, kind) ==
    IF toVersion # fromVersion + 1
    THEN registry
    ELSE [v \in (DOMAIN registry) \cup {fromVersion} |->
             IF v = fromVersion THEN kind ELSE registry[v]]

unregisterMigration(registry, fromVersion) ==
    [v \in (DOMAIN registry) \ {fromVersion} |-> registry[v]]

\* a request placed on the upgrade transaction
Request(type, v, value) == [type |-> type, v |-> v, value |-> value]

\* the handle while it is closed
ClosedConn ==
    [phase |-> "closed", declared |-> 0, dimension |-> 0, awaited |-> FALSE,
     oldVer |-> 0, queue |-> <<>>, ran |-> <<>>, logBefore |-> <<>>, upgraded |-> FALSE]

\* fn(db, tx, metaStore) has been called and has returned (or its promise
\* has been awaited): const getReq = metaStore.get("migrations")
AfterMigration(c, v) ==
    [c EXCEPT !.queue = Append(@, Request("getMigrations", v, <<>>))]

\* for (let v = oldVer; v < newVer; v++) { ... } followed by
\* const schemaReq = metaStore.get("schema").  With `await fn(...)` the loop
\* stops at a migration that waits for a request, and goes on when that
\* request has succeeded; without the await the promise is dropped.
RECURSIVE MigrationLoop(_, _, _)
MigrationLoop(c, registry, v) ==
    IF v >= c.declared
    THEN [c EXCEPT !.queue = Append(@, Request("getSchema", 0, <<>>))]
    ELSE IF v \notin DOMAIN registry
    THEN MigrationLoop(c, registry, v + 1)
    ELSE IF registry[v] = "atOnce"
    THEN MigrationLoop(AfterMigration([c EXCEPT !.ran = Append(@, v)], v),
                       registry, v + 1)
    ELSE IF c.awaited
    THEN [c EXCEPT !.ran = Append(@, v),
                   !.queue = Append(@, Request("migrationRequest", v, <<>>))]
    ELSE MigrationLoop(
             AfterMigration(
                 [c EXCEPT !.ran = Append(@, v),
                           !.queue = Append(@, Request("migrationRequest", v, <<>>))],
                 v),
             registry, v + 1)

\* req.onupgradeneeded: oldVer = ev.oldVersion || 0, newVer = ev.newVersion
onupgradeneeded(db, registry, version, dimension, awaited) ==
    MigrationLoop(
        [ClosedConn EXCEPT !.phase = "upgrading", !.declared = version,
            !.dimension = dimension, !.awaited = awaited, !.oldVer = db.version, !.logBefore = db.log,
            !.upgraded = TRUE],
        registry, db.version)

\* getReq.onsuccess: const existing = getReq.result ? getReq.result.value : [];
\* const updated = existing.concat([[v, v + 1]]); metaStore.put(...)
getReq_onsuccess(db, c, v) ==
    [c EXCEPT !.queue =
        Append(@, Request("putMigrations", v,
                          (IF db.hasLog THEN db.log ELSE <<>>) \o <<<<v, v + 1>>>>))]

\* schemaReq.onsuccess: the schema entry is written with version newVer
\* and with the dimension of the options of the handle
schemaReq_onsuccess(db, c) ==
    [c EXCEPT !.queue =
        Append(@, Request("putSchema", c.declared, <<c.dimension, DateNow(db)>>))]

\* the effect of the request at the head of the queue on the database
Written(db, r) ==
    IF r.type = "putMigrations"
    THEN [db EXCEPT !.hasLog = TRUE, !.log = r.value]
    ELSE IF r.type = "putSchema"
    THEN PutNewSchema(db, r.v, r.value[1], r.value[2])
    ELSE db

\* the success handler of the request at the head of the queue
Handled(db, c, registry, r) ==
    IF r.type = "getMigrations" THEN getReq_onsuccess(db, c, r.v)
    ELSE IF r.type = "getSchema" THEN schemaReq_onsuccess(db, c)
    ELSE IF r.type = "migrationRequest" /\ c.awaited
    THEN MigrationLoop(AfterMigration(c, r.v), registry, r.v + 1)
    ELSE c

\* ---- the specification of opening a database ----

OpenInit ==
    /\ WSIdle
    /\ TreeIdle
    /\ EngIdle
    /\ MBIdle
    /\ VDBIdle
    /\ PCMIdle
    /\ WasmIdle
    /\ idb = FreshDatabase
    /\ migrations = << >>
    /\ conn = ClosedConn

OpenFrame == UNCHANGED <<wsVars, treeVars, engVars, mbVars, vdbVars, pcmVars, wasmVars>>

\* LocalVectorDB.registerMigration(v, v + 1, fn)
ORegisterMigration ==
    /\ conn.phase = "closed"
    /\ \E v \in 0..(MaxVersion - 1), kind \in MigrationKinds :
           migrations' = registerMigration(migrations, v, v + 1, kind)
    /\ UNCHANGED <<idb, conn>>
    /\ OpenFrame

\* LocalVectorDB.unregisterMigration(v, v + 1)
OUnregisterMigration ==
    /\ conn.phase = "closed"
    /\ \E v \in DOMAIN migrations :
           migrations' = unregisterMigration(migrations, v)
    /\ UNCHANGED <<idb, conn>>
    /\ OpenFrame

\* indexedDB.open(dbName, version) with version above the persisted one:
\* the upgrade transaction starts and onupgradeneeded runs
OUpgradeNeeded ==
    /\ conn.phase = "closed"
    /\ idb.updatedAt < MaxClock
    /\ \E version \in 1..MaxVersion, dimension \in Dimensions, awaited \in BOOLEAN :
           /\ idb.version < version
           /\ conn' = onupgradeneeded(idb, migrations, version, dimension, awaited)
    /\ UNCHANGED <<idb, migrations>>
    /\ OpenFrame

\* the request at the head of the upgrade transaction succeeds
ORequestDone ==
    /\ conn.phase = "upgrading"
    /\ conn.queue # <<>>
    /\ idb' = Written(idb, Head(conn.queue))
    /\ conn' = Handled(idb, [conn EXCEPT !.queue = Tail(@)], migrations,
                       Head(conn.queue))
    /\ UNCHANGED migrations
    /\ OpenFrame

\* the upgrade transaction completes, then req.onsuccess rewrites the schema
\* entry with this.options.version and the promise resolves
OUpgradeDone ==
    /\ conn.phase = "upgrading"
    /\ conn.queue = <<>>
    /\ idb' = PutNewSchema([idb EXCEPT !.version = conn.declared],
                            conn.declared, conn.dimension, DateNow(idb))
    /\ conn' = [conn EXCEPT !.phase = "open"]
    /\ UNCHANGED migrations
    /\ OpenFrame

\* indexedDB.open(dbName, version) with the persisted version: no upgrade
OOpenSame ==
    /\ conn.phase = "closed"
    /\ idb.version >= 1
    /\ idb.updatedAt < MaxClock
    /\ \E dimension \in Dimensions :
           /\ idb' = PutNewSchema(idb, idb.version, dimension, DateNow(idb))
           /\ conn' = [ClosedConn EXCEPT !.phase = "open",
                          !.declared = idb.version, !.dimension = dimension,
                          !.oldVer = idb.version, !.logBefore = idb.log]
    /\ UNCHANGED migrations
    /\ OpenFrame

\* db.close()
OClose ==
    /\ conn.phase = "open"
    /\ conn' = ClosedConn
    /\ UNCHANGED <<idb, migrations>>
    /\ OpenFrame

OpenNext ==
    \/ ORegisterMigration
    \/ OUnregisterMigration
    \/ OUpgradeNeeded
    \/ ORequestDone
    \/ OUpgradeDone
    \/ OOpenSame
    \/ OClose

SpecOpen == OpenInit /\ [][OpenNext]_vars

\* the hops of [from, to) that have a registered migration, ascending
RECURSIVE RegisteredHops(_, _, _)
RegisteredHops(registry, from, to) ==
    IF from >= to THEN <<>>
    ELSE (IF from \in DOMAIN registry THEN <<from>> ELSE <<>>)
             \o RegisteredHops(registry, from + 1, to)

\* one [v, v + 1] entry per hop, in order
LogEntries(hops) == [i \in 1..Len(hops) |-> <<hops[i], hops[i] + 1>>]

\* an open that upgraded the database has completed
UpgradeCompleted == conn.phase = "open" /\ conn.upgraded

\* every registered migration of [V', V) ran, in ascending order
RanRegisteredAscending ==
    conn.ran = RegisteredHops(migrations, conn.oldVer, conn.declared)

\* C20: when an open with declared version V over a persisted version V' < V
\* completes, every registered migration v->v+1 with V' <= v < V has run in
\* ascending order inside the upgrade transaction, the persisted migrations
\* log has gained one [v, v+1] entry per executed migration in application
\* order, and schema.version = V; a hop without a registered migration adds
\* no entry and does not stop the upgrade.
C20_MigrationsLogged ==
    UpgradeCompleted =>
        /\ RanRegisteredAscending
        /\ idb.log = conn.logBefore \o LogEntries(conn.ran)
        /\ idb.schemaVersion = conn.declared
        /\ idb.version = conn.declared

\* what does hold: the migrations run in ascending order, the schema entry
\* and the database carry the declared version, and the log ends with the
\* entry of the last migration that ran
RanInOrderSchemaAtVersion ==
    UpgradeCompleted =>
        /\ RanRegisteredAscending
        /\ idb.schemaVersion = conn.declared
        /\ idb.version = conn.declared
        /\ conn.ran # <<>> =>
               idb.log[Len(idb.log)] = LogEntries(conn.ran)[Len(conn.ran)]
        /\ conn.ran = <<>> => idb.log = conn.logBefore

\* the case of the spec: a fresh store, migrations 1->2 and 2->3, version 3
FreshStoreTwoHops ==
    /\ UpgradeCompleted
    /\ conn.oldVer = 0
    /\ conn.declared = 3
    /\ conn.ran = <<1, 2>>

\* the schema entry of a store that has been created
SchemaOf(db) ==
    [version |-> db.schemaVersion, dimension |-> db.dimension,
     createdAt |-> db.createdAt]

\* an open of an existing store at its persisted version has just completed
OpenedSameVersion == conn.phase = "closed" /\ conn'.phase = "open"

\* C21: the persisted schema.dimension of a store is fixed once the store has
\* been created: no step of a re-open, at the same or a higher declared
\* version and with any options, changes it; an open at the same version
\* changes nothing of the schema entry but updatedAt.
C21_DimensionFixed ==
    [][idb.hasSchema =>
          /\ idb'.dimension = idb.dimension
          /\ OpenedSameVersion => SchemaOf(idb') = SchemaOf(idb)]_vars

\* what does hold: a re-open with the dimension the store was created with
\* keeps the dimension, and at the same version it only refreshes updatedAt
DimensionKeptBySameOptions ==
    [][(idb.hasSchema /\ conn'.dimension \in {0, idb.dimension}) =>
          /\ idb'.dimension = idb.dimension
          /\ idb'.createdAt = idb.createdAt
          /\ OpenedSameVersion =>
                 (SchemaOf(idb') = SchemaOf(idb) /\ idb'.updatedAt > idb.updatedAt)]_vars

\* a dense vector of unit L2 norm, or the zero vector
UnitOrZero(v) == Hypot(v) = Unit \/ \A i \in 1..Len(v) : v[i] = 0

\* every record of a dense store is a unit vector or the zero vector
StoredVectorsNormalized(db) ==
    \A id \in DOMAIN db.records :
        db.records[id].format = "dense" => UnitOrZero(db.records[id].vector)

\* C22: in a store with normalize = true every stored dense vector has unit
\* L2 norm or is the zero vector, after any sequence of insert, insertBatch
\* and import.
C22_StoredVectorsUnitOrZero ==
    (vdb # Null /\ vdb.format = "dense" /\ vdb.normalize) => StoredVectorsNormalized(vdb)

\* what does hold: insert and insertBatch store unit or zero vectors only
InsertNormalizes ==
    (vdbLast # Null /\ vdbLast.op \in {"insert", "insertBatch"}
        /\ vdb.format = "dense" /\ vdb.normalize
        /\ StoredVectorsNormalized(vdbLast.before)) => StoredVectorsNormalized(vdb)

\* ---------------------------------------------------------------------------
\* LocalVectorDB.hammingWasmPacked: the accelerated Hamming distance
\* ---------------------------------------------------------------------------

\* the longest packed vector of the model, in bytes
MaxPackedBytes == 2

\* const offsetB = Math.ceil(a.length / 8) * 8
OffsetB(a) == ((Len(a) + 7) \div 8) * 8

\* the bytes of the memory that the packed vectors of the model can reach
MemoryBytes == OffsetB([i \in 1..MaxPackedBytes |-> 0]) + MaxPackedBytes

\* new WebAssembly.Memory(...): zero-filled
NewMemory == [i \in 1..MemoryBytes |-> 0]

\* the handle before enableWasmPopcount, and after a failed load
NoWasm == [instance |-> "none", memory |-> <<>>]

\* enableWasmPopcount: the module loads with the export the handle expects,
\* loads without it, or fails to load
enableWasmPopcount(w, loaded) ==
    IF loaded = "failed" THEN NoWasm
    ELSE [instance |-> loaded, memory |-> NewMemory]

\* memoryView.set(bytes, offset)
MemorySet(memory, bytes, offset) ==
    [i \in 1..Len(memory) |->
        IF i > offset /\ i <= offset + Len(bytes) THEN bytes[i - offset] ELSE memory[i]]

\* an export hamming(ptrA, ptrB, byteLen): the popcount of the XOR of the
\* two ranges of byteLen bytes
HammingExport(memory, ptrA, ptrB, byteLen) ==
    SumOver([i \in 1..byteLen |-> PopcountXor(memory[ptrA + i], memory[ptrB + i])], 1)

\* hammingWasmPacked(a, b): the fallback without instance, memory or export;
\* otherwise a at offset 0, b at offsetB, hammingFn(offsetA, offsetB, a.length)
hammingWasmPacked(w, a, b) ==
    IF w.instance # "popcount"
    THEN [distance |-> hammingDistancePacked(a, b), wasm |-> w]
    ELSE With(MemorySet(MemorySet(w.memory, a, 0), b, OffsetB(a)), LAMBDA memory :
           [distance |-> HammingExport(memory, 0, OffsetB(a), Len(a)),
            wasm |-> [w EXCEPT !.memory = memory]])

\* the binary vectors of queries and of stored records: up to 8 bits in one
\* byte, more in two
BinaryVectors ==
    {<<1, 0, 1>>, <<0, 1, 1, 0, 0, 0, 0, 1>>,
     <<1, 0, 1, 0, 0, 0, 0, 0, 1>>, <<0, 0, 0, 0, 0, 0, 0, 0, 1, 1>>}

WasmInit ==
    /\ WSIdle
    /\ TreeIdle
    /\ EngIdle
    /\ MBIdle
    /\ VDBIdle
    /\ PCMIdle
    /\ OpenIdle
    /\ wasm = NoWasm
    /\ hamLast = Null

WasmFrame == UNCHANGED <<wsVars, treeVars, engVars, mbVars, vdbVars, pcmVars, openVars>>

\* await db.enableWasmPopcount(base64Wasm)
WEnableWasmPopcount ==
    /\ \E loaded \in {"popcount", "noExport", "failed"} :
          wasm' = enableWasmPopcount(wasm, loaded)
    /\ UNCHANGED hamLast
    /\ WasmFrame

\* queryBinary scores one record: useWasm ? this.hammingWasmPacked(packedQuery,
\* packed) : hammingDistancePacked(packedQuery, packed)
WHamming ==
    /\ \E q \in BinaryVectors, r \in BinaryVectors :
          With(hammingWasmPacked(wasm, packBits(q), packBits(r)), LAMBDA res :
            /\ wasm' = res.wasm
            /\ hamLast' = [a |-> packBits(q), b |-> packBits(r),
                           distance |-> res.distance, instance |-> wasm.instance])
    /\ WasmFrame

WasmNext ==
    \/ WEnableWasmPopcount
    \/ WHamming

SpecWasm == WasmInit /\ [][WasmNext]_vars

\* C23: for any packed query bytes a and any stored packed record bytes b
\* the accelerated path returns the integer that the fallback
\* hammingDistancePacked(a, b) returns, whether the module is loaded with
\* its export or not.
C23_WasmEqualsFallback ==
    hamLast # Null => hamLast.distance = hammingDistancePacked(hamLast.a, hamLast.b)

\* what does hold: the two paths agree on arrays of the same length, and
\* without module or export the fallback value is returned
WasmEqualsFallbackSameLength ==
    (hamLast # Null /\ (Len(hamLast.a) = Len(hamLast.b) \/ hamLast.instance # "popcount")) =>
        hamLast.distance = hammingDistancePacked(hamLast.a, hamLast.b)

\* the last call on the tree is one the tree must reject: addNode of a
\* second root, deleteBranch of the root or of an unknown id, editNode or
\* updateNode of an unknown id
MustBeRejected ==
    /\ treeLast # Null
    /\ \/ /\ treeLast.op = "addNode"
          /\ treeLast.parentId = ""
          /\ Truthy(TRoot(treeLast.before))
       \/ /\ treeLast.op = "deleteBranch"
          /\ \/ ~HasNode(treeLast.before, treeLast.id)
             \/ S(treeLast.id) = TRoot(treeLast.before)
       \/ /\ treeLast.op \in {"editNode", "updateNode"}
          /\ ~HasNode(treeLast.before, treeLast.id)

\* C24: a rejected tree operation (addNode of a second root, deleteBranch of
\* the root or of an unknown id, editNode or updateNode of an unknown id)
\* returns null and leaves nodes and rootNodeId exactly as before.
C24_RejectedChangesNothing ==
    (MustBeRejected /\ treePhase = "idle") =>
        /\ treeLast.returned = Null
        /\ treeDoc = treeLast.before

\* a second root has been offered to a tree that holds nodes
C24_Witness ==
    /\ MustBeRejected
    /\ treePhase = "idle"
    /\ treeLast.op = "addNode"
    /\ Len(TNodes(treeLast.before).v) >= 2

RECURSIVE HasAncestor(_, _, _, _)
\* following parentId from id reaches ancestor within fuel steps
HasAncestor(doc, id, ancestor, fuel) ==
    /\ fuel > 0
    /\ HasNode(doc, id)
    /\ \/ NodeParentId(getNode(doc, id)) = ancestor
       \/ HasAncestor(doc, NodeParentId(getNode(doc, id)), ancestor, fuel - 1)

\* the descendants of a node: the nodes whose parentId chain passes it
Descendants(doc, id) ==
    {d \in TreeIds(doc) \ {id} : HasAncestor(doc, d, id, Len(TNodes(doc).v))}

\* the (id, childrenIds) links agree with the parentId links
LinksAgree(doc) ==
    \A p \in TreeIds(doc), c \in TreeIds(doc) :
        (\E j \in 1..Len(NodeChildrenIds(getNode(doc, p))) :
             NodeChildrenIds(getNode(doc, p))[j] = c)
            <=> NodeParentId(getNode(doc, c)) = p

\* a tree as the spec describes it: one root, no cycle, no dangling link,
\* parents and children naming each other
WellFormed(doc) ==
    /\ OneRoot(doc)
    /\ NoDuplicateChildren(doc)
    /\ Acyclic(doc)
    /\ ParentsResolve(doc)
    /\ ChildrenResolve(doc)
    /\ LinksAgree(doc)

\* seq without the entries equal to x, the others in their order
Without(seq, x) == SelectSeq(seq, LAMBDA c : c # x)

\* deleteBranch(id) removed id and its descendants and nothing else
RemovedExactlyBranch(before, after, id) ==
    TreeIds(after) = TreeIds(before) \ ({id} \cup Descendants(before, id))

\* the nodes that stay are unchanged, but for the parent of id, which lost
\* id from its childrenIds and kept the order of the others
OthersKept(before, after, id) ==
    \A x \in TreeIds(after) :
        /\ HasNode(before, x)
        /\ getNode(after, x) =
              IF x = NodeParentId(getNode(before, id))
              THEN Put(getNode(before, x), "childrenIds",
                       A(Without(Child(getNode(before, x), "childrenIds").v, S(id))))
              ELSE getNode(before, x)

\* the deleted nodes are returned once each, every node after its descendants
LeafFirst(before, deletedNodes, id) ==
    /\ {NodeId(deletedNodes[i]) : i \in 1..Len(deletedNodes)} =
           {id} \cup Descendants(before, id)
    /\ \A i, j \in 1..Len(deletedNodes) :
          /\ (NodeId(deletedNodes[i]) = NodeId(deletedNodes[j]) => i = j)
          /\ (NodeId(deletedNodes[j]) \in Descendants(before, NodeId(deletedNodes[i]))
                 => j < i)

\* C30: deleteBranch(id) removes exactly id and all of its descendants and no
\* other node, removes id from its parent's childrenIds keeping the order of
\* the remaining siblings, and returns the deleted nodes leaf first (every
\* node after all of its descendants).
C30_DeleteBranchRemovesBranch ==
    treePhase = "deleted" =>
        /\ RemovedExactlyBranch(treeBefore, treeDoc, treeResult.id)
        /\ OthersKept(treeBefore, treeDoc, treeResult.id)
        /\ LeafFirst(treeBefore, treeResult.deletedNodes, treeResult.id)

\* what does hold: the same on a tree whose links are those of a tree
DeleteBranchOnWellFormedTree ==
    (treePhase = "deleted" /\ WellFormed(treeBefore)) =>
        /\ RemovedExactlyBranch(treeBefore, treeDoc, treeResult.id)
        /\ OthersKept(treeBefore, treeDoc, treeResult.id)
        /\ LeafFirst(treeBefore, treeResult.deletedNodes, treeResult.id)

\* a branch of two nodes has been deleted from a well-formed tree
DeletedBranchOfTwo ==
    /\ treePhase = "deleted"
    /\ WellFormed(treeBefore)
    /\ Len(treeResult.deletedNodes) = 2

\* the operations of a delta that address the world state document
WorldOps(ops) == SelectSeq(ops, LAMBDA op : Len(OpPath(op)) = 0 \/ OpPath(op)[1] # "memories")

RECURSIVE ReplayDeltas(_, _, _)
\* the apply lists of the deltas applied in turn to a world state document
ReplayDeltas(doc, deltas, i) ==
    IF doc = Thrown \/ i > Len(deltas) THEN doc
    ELSE IF deltas[i] = Null THEN ReplayDeltas(doc, deltas, i + 1)
    ELSE ReplayDeltas(WS_applyDelta(doc, WorldOps(DeltaApply(deltas[i]))), deltas, i + 1)

\* the world state that belongs to the selected node: the deltas of the
\* nodes from the root to it, applied in path order to the empty world state
PathWorldState(e) ==
    ReplayDeltas(WSNew(O(<<>>), A(<<>>)),
                 IF e.selectedNodeId = Null THEN <<>>
                 ELSE FlatNodeDeltas(getPathToNode(e.storyTree, e.selectedNodeId.v), 1),
                 1)

\* C25: whenever no engine operation is in flight the live world state is
\* the result of applying, to the empty world state, the apply lists of the
\* deltas of every node on the path from the root to the selected node, in
\* path order: each tool call's mutation is in the live state exactly once.
C25_WorldStateIsPathReplay ==
    turns = <<>> => JsonClone(engine.worldState) = JsonClone(PathWorldState(engine))

\* what does hold: the same as long as no call has thrown or failed and the
\* director has made no tool call
NoToolCallSoFar ==
    /\ engToolCalls = 0
    /\ \A id \in DOMAIN engNodeWS : engNodeWS[id] = JsonClone(WSNew(O(<<>>), A(<<>>)))

WorldStateIsPathReplayWithoutToolCalls ==
    (turns = <<>> /\ NoToolCallSoFar) =>
        JsonClone(engine.worldState) = JsonClone(PathWorldState(engine))

\* the step is a call of the synchronous operation op
IsCallOf(op) == engOps' = engOps + 1 /\ engLast'.op = op

Top(stack) == stack[Len(stack)]

ButTop(stack) == SubSeq(stack, 1, Len(stack) - 1)

\* what a call of undo or of redo does to the stacks, the selection, the
\* story tree and the world state
UndoRedoStep ==
    /\ IsCallOf("undo") =>
         IF engine.undoStack = <<>> THEN engine' = engine
         ELSE /\ engine'.undoStack = ButTop(engine.undoStack)
              /\ engine'.redoStack = Append(engine.redoStack, Top(engine.undoStack))
              /\ engine'.selectedNodeId = Top(engine.undoStack).fromNodeId
    /\ IsCallOf("redo") =>
         IF engine.redoStack = <<>> THEN engine' = engine
         ELSE /\ engine'.redoStack = ButTop(engine.redoStack)
              /\ engine'.undoStack = Append(engine.undoStack, Top(engine.redoStack))
              /\ engine'.selectedNodeId = Top(engine.redoStack).toNodeId
              /\ (engLast.op = "undo" /\ engLast.outcome = "done") =>
                     /\ engine'.storyTree = engLast.before.storyTree
                     /\ JsonClone(engine'.worldState)
                            = JsonClone(engLast.before.worldState)

\* C26: undo() moves exactly the top action from the undo stack to the redo
\* stack and selects its fromNodeId; a following redo() moves it back,
\* selects its toNodeId and restores the story tree and the world state to
\* what they were before the undo; undo on an empty undo stack and redo on
\* an empty redo stack change nothing.
C26_UndoThenRedo == [][UndoRedoStep]_vars

\* what does hold: the same while the director has made no tool call
UndoThenRedoWithoutToolCalls == [][NoToolCallSoFar => UndoRedoStep]_vars

\* a writer turn has ended that was due to generate a memory, and the
\* memory generation itself has answered
MemoryTurnEnded ==
    /\ engLast.at = "resume"
    /\ engLast.op \in {"act", "continue", "retry"}
    /\ engLast.arg = "memory"
    /\ engLast.outcome # "failed"

\* a writer turn has completed that was not due to generate a memory
OtherTurnEnded ==
    /\ engLast.at = "resume"
    /\ engLast.op \in {"act", "continue", "retry"}
    /\ engLast.arg # "memory"
    /\ engLast.outcome = "done"

\* the deltas of the selected node include one that adds a memory
SelectedNodeHasMemoryDelta(e) ==
    /\ e.selectedNodeId # Null
    /\ HasNode(e.storyTree, e.selectedNodeId.v)
    /\ LET deltas == FlatNodeDeltas(<<getNode(e.storyTree, e.selectedNodeId.v)>>, 1)
       IN \E i \in 1..Len(deltas) :
            /\ deltas[i] # Null
            /\ \E j \in 1..Len(DeltaApply(deltas[i])) :
                 LET path == OpPath(DeltaApply(deltas[i])[j])
                 IN Len(path) > 0 /\ path[1] = "memories"

\* C27: a writer turn on which turnCounter mod memoryGenerationInterval = 0
\* (interval > 0) completes without error: one memory is added to the
\* memory bank, the appended storywriter node's deltas include that memory's
\* delta and exactly one action is pushed on the undo stack; on every other
\* turn no memory is generated.
C27_MemoryTurnCompletes ==
    /\ MemoryTurnEnded =>
         /\ engLast.outcome = "done"
         /\ Len(engine.memories.v) = Len(engLast.before.memories.v) + 1
         /\ SelectedNodeHasMemoryDelta(engine)
         /\ Len(engine.undoStack) = Len(engLast.before.undoStack) + 1
    /\ OtherTurnEnded =>
         MemoryIds(engine.memories) = MemoryIds(engLast.before.memories)

\* what does hold: a memory is generated on the due turns only, and a turn
\* that is not due completes with one action pushed
MemoryOnDueTurnsOnly ==
    /\ MemoryTurnEnded =>
         /\ engLast.before.memoryGenerationInterval > 0
         /\ Len(engine.memories.v) = Len(engLast.before.memories.v) + 1
    /\ OtherTurnEnded =>
         /\ MemoryIds(engine.memories) = MemoryIds(engLast.before.memories)
         /\ Len(engine.undoStack) = Len(engLast.before.undoStack) + 1

\* out holds exactly the min(k, n) best of the n records of db that pass the
\* filter of q, each once and with its score
BestOfStore(out, db, q) ==
    LET passing == Candidates(db, q)
        returned == {out[i].id : i \in 1..Len(out)}
    IN /\ Len(out) = (IF q.k < Cardinality(passing) THEN q.k ELSE Cardinality(passing))
       /\ NoIdTwice(out)
       /\ returned \subseteq passing
       /\ \A i \in 1..Len(out) : out[i].score = ShownScore(db, out[i].id, q)
       /\ \A id \in passing \ returned :
             \A i \in 1..Len(out) : ~(ShownScore(db, id, q) > out[i].score)

\* a query of a dense store with maxCandidates unset has been made
QueriedAllCandidates ==
    /\ vdbLast # Null
    /\ vdbLast.op = "query"
    /\ vdbLast.q.maxCandidates = 0

\* C28: with maxCandidates unset, query(q, {k, filter}) returns exactly the
\* min(k, n) best-scoring records among the n stored records that pass the
\* filter (dot product for cosine, negated Euclidean distance for
\* euclidean): no passing record left out has a strictly higher score than
\* a returned one.
C28_QueryReturnsBest ==
    QueriedAllCandidates =>
        /\ vdbLast.outcome = "returned"
        /\ BestOfStore(vdbLast.out, vdbLast.before, vdbLast.q)

\* what does hold: the same for k >= 1 when the records are read from the
\* store
CursorQueryReturnsBest ==
    (QueriedAllCandidates /\ vdbLast.q.k >= 1 /\ vdbLast.path = "cursor") =>
        /\ vdbLast.outcome = "returned"
        /\ BestOfStore(vdbLast.out, vdbLast.before, vdbLast.q)

\* the cosine score search compares for the stored card id
CardScore(m, id, vector) ==
    ShownScore(m.db, id, QueryOpts(vector, 1, "cosine", "", 0, FALSE))

\* result is the first limit entries of a ranking of the cards of m that
\* lists the triggered cards first and the other stored cards after them by
\* descending cosine score
FirstOfRanking(result, m, query, vector, limit) ==
    LET triggered == CardIds(m.plotCards, IsTriggered, query)
        stored == DOMAIN m.db.records
        returned == {result[i].id : i \in 1..Len(result)}
    IN /\ Len(result) <= limit
       /\ \A i, j \in 1..Len(result) : result[i].id = result[j].id => i = j
       /\ returned \subseteq triggered \cup stored
       /\ Len(result) < limit => triggered \cup stored \subseteq returned
       /\ TriggeredFirst(result, triggered, limit)
       /\ \A i, j \in 1..Len(result) :
             (i < j /\ result[i].id \notin triggered /\ result[j].id \notin triggered)
                 => CardScore(m, result[i].id, vector) >= CardScore(m, result[j].id, vector)
       /\ \A id \in stored \ (triggered \cup returned) :
             \A i \in 1..Len(result) :
                 result[i].id \notin triggered
                     => ~(CardScore(m, id, vector) > CardScore(m, result[i].id, vector))

\* a search has been called
Searched == pcmLast # Null /\ pcmLast.op = "search"

\* C29: search(query, limit) returns the first limit entries of the ranking
\* that lists all triggered cards first and then the remaining cards by
\* descending cosine similarity to the query: no card that is not triggered
\* and has a higher cosine score than a returned card that is not triggered
\* is left out, and the result has at most limit cards and no id twice.
C29_SearchReturnsRanking ==
    Searched =>
        /\ pcmLast.outcome = "returned"
        /\ FirstOfRanking(pcmLast.result, pcmLast.before, pcmLast.query,
                          pcmLast.vector, pcmLast.limit)

\* what does hold: the same for the searches that return
ReturnedSearchIsRanking ==
    SearchDone =>
        FirstOfRanking(pcmLast.result, pcmLast.before, pcmLast.query,
                       pcmLast.vector, pcmLast.limit)

\* the selected node of e is a storywriter node that is not the root
WriterSelected(e) ==
    /\ e.selectedNodeId # Null
    /\ HasNode(e.storyTree, e.selectedNodeId.v)
    /\ NodeParentId(getNode(e.storyTree, e.selectedNodeId.v)) # ""
    /\ Child(Child(getNode(e.storyTree, e.selectedNodeId.v), "turn"), "actor")
           = S("storywriter")

\* after is before with one storywriter node appended as the last child of
\* the parent of the node old, which stays with its whole subtree, the new
\* node selected
RetriedFrom(before, after, old) ==
    LET parent == NodeParentId(getNode(before.storyTree, old))
    IN /\ after.selectedNodeId # Null
       /\ after.selectedNodeId.v \notin TreeIds(before.storyTree)
       /\ HasNode(after.storyTree, after.selectedNodeId.v)
       /\ WriterSelected(after)
       /\ NodeParentId(getNode(after.storyTree, after.selectedNodeId.v)) = parent
       /\ NodeChildrenIds(getNode(after.storyTree, parent))
              = Append(NodeChildrenIds(getNode(before.storyTree, parent)),
                       after.selectedNodeId.v)
       /\ \A id \in {old} \cup Descendants(before.storyTree, old) :
              /\ HasNode(after.storyTree, id)
              /\ getNode(after.storyTree, id) = getNode(before.storyTree, id)

\* the world state of e is the recorded state of the parent of the selected
\* node with the deltas of the selected node applied
ParentStatePlusDeltas(e, recorded) ==
    LET node == getNode(e.storyTree, e.selectedNodeId.v)
    IN /\ NodeParentId(node) \in DOMAIN recorded
       /\ JsonClone(e.worldState)
              = JsonClone(ReplayDeltas(recorded[NodeParentId(node)],
                                       FlatNodeDeltas(<<node>>, 1), 1))

\* C31: retry() requires the selected node to be a non-root storywriter
\* node, otherwise it throws, pushes no action and changes no state; on
\* success the new storywriter node is the last child of the same parent,
\* the old writer node and its subtree remain, the selection is the new
\* node and the world state is the parent's state plus the new node's deltas.
C31_RetryAddsSibling ==
    /\ (engLast.op = "retry" /\ engLast.at = "call" /\ ~WriterSelected(engLast.before)) =>
          /\ engLast.outcome = "threw"
          /\ engine = engLast.before
    /\ (engLast.op = "retry" /\ engLast.outcome = "done") =>
          /\ WriterSelected(engLast.before)
          /\ RetriedFrom(engLast.before, engine, engLast.before.selectedNodeId.v)
          /\ ParentStatePlusDeltas(engine, engNodeWS)

\* what does hold: the same without the world state
RetryKeepsBranches ==
    /\ (engLast.op = "retry" /\ engLast.at = "call" /\ ~WriterSelected(engLast.before)) =>
          /\ engLast.outcome = "threw"
          /\ engine = engLast.before
    /\ (engLast.op = "retry" /\ engLast.outcome = "done") =>
          /\ WriterSelected(engLast.before)
          /\ RetriedFrom(engLast.before, engine, engLast.before.selectedNodeId.v)
          /\ NoToolCallSoFar => ParentStatePlusDeltas(engine, engNodeWS)

\* the selected node of e is a player node
PlayerSelected(e) ==
    /\ e.isInitialized
    /\ e.selectedNodeId # Null
    /\ HasNode(e.storyTree, e.selectedNodeId.v)
    /\ Child(Child(getNode(e.storyTree, e.selectedNodeId.v), "turn"), "actor")
           = S("player")

\* edit has been called with a player node selected
PlayerNodeEdited ==
    /\ engLast.op = "edit"
    /\ engLast.at = "call"
    /\ PlayerSelected(engLast.before)

\* after differs from before in the text of the turn of node id only
OnlyTextChanged(before, after, id, text) ==
    /\ TreeIds(after.storyTree) = TreeIds(before.storyTree)
    /\ \A other \in TreeIds(before.storyTree) \ {id} :
          getNode(after.storyTree, other) = getNode(before.storyTree, other)
    /\ getNode(after.storyTree, id)
          = Put(getNode(before.storyTree, id), "turn",
                Put(Child(getNode(before.storyTree, id), "turn"), "text", S(text)))
    /\ JsonClone(after.worldState) = JsonClone(before.worldState)
    /\ after.memories = before.memories
    /\ after.selectedNodeId = before.selectedNodeId

\* undo of the edit brings the old text back and leaves the world state as
\* it was before the edit
UndoRestoresText(before, after, id) ==
    With(AfterUndo(after), LAMBDA r :
      /\ r.out = "done"
      /\ getNode(r.e.storyTree, id) = getNode(before.storyTree, id)
      /\ JsonClone(r.e.worldState) = JsonClone(before.worldState))

\* C32: edit(newText) on a player node changes only that node's turn text:
\* the world state, the memory bank and the node's deltas are unchanged, and
\* undo() of that edit restores the old text and leaves the world state
\* equal to its value before the edit.
C32_PlayerEditChangesTextOnly ==
    PlayerNodeEdited =>
        /\ engLast.outcome = "done"
        /\ OnlyTextChanged(engLast.before, engine, engLast.before.selectedNodeId.v,
                           EditedText)
        /\ UndoRestoresText(engLast.before, engine, engLast.before.selectedNodeId.v)

\* what does hold: the edit itself changes the text only
PlayerEditItself ==
    PlayerNodeEdited =>
        /\ engLast.outcome = "done"
        /\ OnlyTextChanged(engLast.before, engine, engLast.before.selectedNodeId.v,
                           EditedText)

\* editNode has replaced a turn
NodeEdited ==
    /\ treeLast # Null
    /\ treeLast.op = "editNode"
    /\ treeLast.returned # Null

\* after is before with the turn of node id replaced and nothing else
OnlyTurnReplaced(before, after, id, turn) ==
    /\ TRoot(after) = TRoot(before)
    /\ TreeIds(after) = TreeIds(before)
    /\ \A other \in TreeIds(before) \ {id} : getNode(after, other) = getNode(before, other)
    /\ Child(getNode(after, id), "turn") = turn
    /\ \A field \in {"id", "parentId", "childrenIds", "deltas"} :
          Child(getNode(after, id), field) = Child(getNode(before, id), field)

\* C33: editNode(id, newTurn) replaces only the turn of node id: the node's
\* deltas, childrenIds and parentId, every other node and rootNodeId are
\* unchanged, and applying the returned revert ops restores the old turn.
C33_EditNodeReplacesTurnOnly ==
    NodeEdited =>
        /\ OnlyTurnReplaced(treeLast.before, treeDoc, treeLast.id, EditedTurn)
        /\ With(ST_applyDelta(treeDoc, DeltaRevert(treeLast.returned)), LAMBDA reverted :
             /\ reverted # Thrown
             /\ reverted = treeLast.before)

\* editNode has given a node a turn it did not have
C33_Witness ==
    /\ NodeEdited
    /\ Child(getNode(treeLast.before, treeLast.id), "turn") # EditedTurn
    /\ Child(getNode(treeDoc, treeLast.id), "turn") = EditedTurn
    /\ NodeParentId(getNode(treeLast.before, treeLast.id)) # ""

\* the children of the parent of the selected node of e, when it has a
\* parent with two children at least; the empty sequence otherwise
SiblingsOfSelected(e) ==
    IF e.selectedNodeId = Null \/ ~HasNode(e.storyTree, e.selectedNodeId.v) THEN <<>>
    ELSE With(NodeParentId(getNode(e.storyTree, e.selectedNodeId.v)), LAMBDA parentId :
           IF parentId = "" \/ ~HasNode(e.storyTree, parentId) THEN <<>>
           ELSE With(NodeChildrenIds(getNode(e.storyTree, parentId)), LAMBDA siblings :
                  IF Len(siblings) < 2 THEN <<>> ELSE siblings))

\* the sibling that follows (direction "next") or precedes id, cyclically
Neighbour(siblings, id, direction) ==
    With(CHOOSE i \in 1..Len(siblings) : siblings[i] = id, LAMBDA i :
      IF direction = "next" THEN siblings[(i % Len(siblings)) + 1]
      ELSE siblings[((i + Len(siblings) - 2) % Len(siblings)) + 1])

RECURSIVE SwitchTimes(_, _, _)
\* the engine after n calls of switch(direction), Null once one of them
\* does not complete
SwitchTimes(e, direction, n) ==
    IF n = 0 THEN e
    ELSE With(switch(e, direction), LAMBDA r :
           IF r.out # "done" THEN Null ELSE SwitchTimes(r.e, direction, n - 1))

\* switch has been called while no call was in flight
SwitchCalled == engLast.op = "switch" /\ engLast.at = "call" /\ ~engLast.inFlight

\* C34: switch('next') selects the sibling that follows the current node in
\* parent.childrenIds and switch('prev') the one that precedes it, wrapping
\* around at both ends, so that switch('next') called as many times as there
\* are siblings returns to the starting node; at the root or when the node
\* has no sibling, switch changes nothing and pushes no action.
C34_SwitchCyclesSiblings ==
    SwitchCalled =>
        With(SiblingsOfSelected(engLast.before), LAMBDA siblings :
          IF siblings = <<>> THEN engine = engLast.before
          ELSE /\ engLast.outcome = "done"
               /\ engine.selectedNodeId
                    = S(Neighbour(siblings, engLast.before.selectedNodeId.v, engLast.arg))
               /\ engine.storyTree = engLast.before.storyTree
               /\ With(SwitchTimes(engLast.before, "next", Len(siblings)), LAMBDA round :
                    /\ round # Null
                    /\ round.selectedNodeId = engLast.before.selectedNodeId))

\* what does hold: the same while the director has made no tool call
SwitchCyclesWithoutToolCalls == NoToolCallSoFar => C34_SwitchCyclesSiblings

\* a node of the tree of e has null among its deltas
SomeNodeHasNullDelta(e) ==
    \E id \in TreeIds(e.storyTree) : HasNullDelta(NodeDeltas(getNode(e.storyTree, id)))

\* C35: every entry of every story node's deltas list is a non-null delta
\* pair after any turn, also when the director calls updatePlot or
\* removePlot with a plot id that does not exist in the world state.
C35_NoNullDeltaInNodes == turns = <<>> => ~SomeNodeHasNullDelta(engine)

\* what does hold: the same while the director has made no tool call
NoNullDeltaWithoutToolCalls == engToolCalls = 0 => ~SomeNodeHasNullDelta(engine)

RECURSIVE ApplyDeltasInTurn(_, _, _)
\* the bank after the applyDelta calls for opsList[i..], each awaited
\* before the next is made
ApplyDeltasInTurn(b, opsList, i) ==
    IF i > Len(opsList) THEN b
    ELSE ApplyDeltasInTurn(MB_applyDeltaCall(b, opsList[i], {}).bank, opsList, i + 1)

\* applyDelta calls were made and every one of them has resolved
ApplyDeltasResolved ==
    mbLast # Null /\ mbLast.op = "applyDeltas" /\ mbPending = <<>>

\* C36: MemoryBank.applyDelta calls that overlap end with the same mirror
\* contents and the same store ids as running the same calls strictly one
\* after another.
C36_OverlapEqualsSequential ==
    ApplyDeltasResolved =>
        With(ApplyDeltasInTurn(mbLast.before, mbLast.arg, 1), LAMBDA inTurn :
          /\ bank.memories = inTurn.memories
          /\ StoreIds(bank) = StoreIds(inTurn))

\* what does hold: a call made while no other call is in flight ends as
\* MB_applyDeltaCall does
LoneApplyDeltaEqualsSequential ==
    (ApplyDeltasResolved /\ Len(mbLast.arg) = 1) =>
        With(ApplyDeltasInTurn(mbLast.before, mbLast.arg, 1), LAMBDA inTurn :
          /\ bank.memories = inTurn.memories
          /\ StoreIds(bank) = StoreIds(inTurn))

\* how many entries of the mirror have the id
TimesInCache(db, id) ==
    Cardinality({i \in 1..Len(db.inMemoryCache) : db.inMemoryCache[i].id = id})

\* enableCache was called last, with the cache not enabled yet, and every
\* cursor opened by it and by the calls before it has run to its end
CacheLoadsCompleted ==
    /\ vdbLast # Null
    /\ vdbLast.op = "enableCache"
    /\ ~vdbLast.before.cacheEnabled
    /\ vdbLoads = 0
    /\ vdb.cacheEnabled
    /\ vdb.hasCache

\* C37: when init() or enableCache() is entered concurrently on one
\* LocalVectorDB handle (two operations issued before the first cache load
\* has completed, with cache enabled), the in-memory mirror ends up
\* containing each stored record exactly once.
C37_CacheHoldsEachRecordOnce ==
    CacheLoadsCompleted =>
        /\ \A id \in DOMAIN vdb.records : TimesInCache(vdb, id) = 1
        /\ \A i \in 1..Len(vdb.inMemoryCache) : vdb.inMemoryCache[i].id \in DOMAIN vdb.records

\* what does hold: the mirror holds every stored record, and nothing else
LoadedCacheHoldsEveryRecord ==
    CacheLoadsCompleted =>
        /\ \A id \in DOMAIN vdb.records : TimesInCache(vdb, id) >= 1
        /\ \A i \in 1..Len(vdb.inMemoryCache) : vdb.inMemoryCache[i].id \in DOMAIN vdb.records

\* an operation has completed and no turn is in flight
OperationCompleted ==
    /\ engine.isInitialized
    /\ turns = <<>>
    /\ engLast.outcome = "done"
    /\ engLast.op \in {"act", "continue", "erase", "retry", "edit", "select", "switch",
                       "undo", "redo"}

\* the init action has been undone and can be redone
InitUndone(e) == \E i \in 1..Len(e.redoStack) : e.redoStack[i].type = "init"

UndoCompleted ==
    /\ turns = <<>>
    /\ engLast.op = "undo"
    /\ engLast.at = "call"
    /\ engLast.outcome = "done"

\* C39: turnCounter is restored by undo/redo: for every action type, undo()
\* followed immediately by redo() leaves turnCounter equal to its value
\* before the undo.
C39_UndoRedoRestoresTurnCounter ==
    UndoCompleted =>
        With(redo(engine), LAMBDA r :
          /\ r.out = "done"
          /\ r.e.turnCounter = engLast.before.turnCounter)

\* the entries of the list that are not the card id, in their order
OtherCards(cards, id) == SelectSeq(cards, LAMBDA c : c = Null \/ c.id # id)

\* a suspended editPlotCard runs to its end in this step
EditResumes == pcmEdits # <<>> /\ pcmEdits[1].pc = "insert" /\ pcmEdits' = <<>>

\* C40: editPlotCard(id, updates) only ever changes the mirror entry whose
\* id is id, also when a removePlotCard or addPlotCard on another or the
\* same card completes while the edit is suspended at an await: no other
\* card's mirror entry is overwritten or dropped.
C40_EditChangesOwnEntryOnly ==
    [][EditResumes =>
         OtherCards(pcm'.plotCards, pcmEdits[1].id) = OtherCards(pcm.plotCards, pcmEdits[1].id)]_vars

\* what does hold: the same when the list is at the resumption what it was
\* when editPlotCard was called
UndisturbedEditChangesOwnEntryOnly ==
    [][(EditResumes /\ pcm.plotCards = pcmEdits[1].cards) =>
         OtherCards(pcm'.plotCards, pcmEdits[1].id) = OtherCards(pcm.plotCards, pcmEdits[1].id)]_vars

====
